---------------------------- MODULE Spec2Model ----------------------------
(***************************************************************************)
(* The notebooks of "Computers, Waves, Simulations" as state machines.     *)
(*                                                                         *)
(* Every notebook is a linear script: setup, assembly of the operators,    *)
(* an explicit time loop, snapshots.  A behaviour of this module is one    *)
(* run of one notebook (nb), from the state after its setup cell to the    *)
(* end of its time loop.                                                   *)
(*                                                                         *)
(* Numbers.  Python floats are modelled by exact rationals <<n, d>> in     *)
(* lowest terms with d > 0 (rounding is not modelled).                     *)
(*                                                                         *)
(* Arrays.  A numpy array is an object on the heap; a Python name is bound *)
(* to the address of an object (env).  "uold = u" copies the address,      *)
(* "u[0] = 0" writes into the object, "u = 2*u - uold" allocates a new     *)
(* object, "u_results[r] = u" copies the values into a row of u_results.   *)
(***************************************************************************)
EXTENDS Integers, Sequences, FiniteSets, TLC

VARIABLES
    nb,      \* the notebook that runs
    pc,      \* position of the run in the notebook
    par,     \* scalar parameters and external inputs of the setup cell
    loc,     \* Python integer variables (loop counters, k, m, xe, ng, ...)
    env,     \* Python array names -> heap address
    heap,    \* the numpy arrays, by address
    x_t,     \* the Python list x_t: addresses appended by the time loop
    saves,   \* history: the (it, row) of every snapshot store so far
    hist,    \* history: the current fields at the end of every iteration
    err      \* the exception that ended the run, or "none"

vars == <<nb, pc, par, loc, env, heap, x_t, saves, hist, err>>

-----------------------------------------------------------------------------
(* Exact rational arithmetic                                               *)

Abs(a) == IF a < 0 THEN -a ELSE a

Sgn(a) == IF a < 0 THEN -1 ELSE IF a > 0 THEN 1 ELSE 0

RECURSIVE GCD(_, _)
GCD(a, b) == IF b = 0 THEN a ELSE GCD(b, a % b)

\* the rational n/d in lowest terms; a division by zero gives the float
\* values inf = <<1, 0>>, -inf = <<-1, 0>> and nan = <<0, 0>>
Rat(n, d) ==
    IF d = 0 THEN <<Sgn(n), 0>>
    ELSE LET g == GCD(Abs(n), Abs(d))
             s == IF d < 0 THEN -1 ELSE 1
         IN  <<(s * n) \div g, (s * d) \div g>>

R(n) == <<n, 1>>
Zero == R(0)
One == R(1)
NaN == <<0, 0>>

Finite(a) == a[2] # 0

RAdd(a, b) ==
    IF Finite(a) /\ Finite(b)
    THEN LET g == GCD(a[2], b[2])
         IN  Rat(a[1] * (b[2] \div g) + b[1] * (a[2] \div g), (a[2] \div g) * b[2])
    ELSE IF Finite(a) THEN b
    ELSE IF Finite(b) \/ a = b THEN a
    ELSE NaN

RNeg(a) == <<-a[1], a[2]>>

RSub(a, b) == RAdd(a, RNeg(b))

RMul(a, b) ==
    IF Finite(a) /\ Finite(b)
    THEN LET g1 == GCD(Abs(a[1]), b[2])
             g2 == GCD(Abs(b[1]), a[2])
         IN  Rat((a[1] \div g1) * (b[1] \div g2), (a[2] \div g2) * (b[2] \div g1))
    ELSE <<Sgn(a[1]) * Sgn(b[1]), 0>>

\* a / b
RDiv(a, b) == RMul(a, Rat(b[2], b[1]))

RLess(a, b) == a[1] * b[2] < b[1] * a[2]

RPos(a) == a[1] > 0

\* the sum of f[x] over the finite set S of integers
RECURSIVE RSum(_, _)
RSum(f, S) ==
    IF S = {} THEN Zero
    ELSE LET x == CHOOSE y \in S : \A z \in S : y <= z
         IN  RAdd(f[x], RSum(f, S \ {x}))

-----------------------------------------------------------------------------
(* numpy arrays: a vector is a function on 0..n-1, a matrix a vector of    *)
(* rows                                                                    *)

Size(v) == Cardinality(DOMAIN v)

zeros(n) == [a \in 0 .. n - 1 |-> Zero]

zeros2(n, c) == [a \in 0 .. n - 1 |-> zeros(c)]

identity(n) == [a \in 0 .. n - 1 |-> [b \in 0 .. n - 1 |-> IF a = b THEN One ELSE Zero]]

VAdd(u, v) == [a \in DOMAIN u |-> RAdd(u[a], v[a])]

VSub(u, v) == [a \in DOMAIN u |-> RSub(u[a], v[a])]

VScale(c, v) == [a \in DOMAIN v |-> RMul(c, v[a])]

\* A @ v
MatVec(A, v) == [a \in DOMAIN A |-> RSum([b \in DOMAIN v |-> RMul(A[a][b], v[b])], DOMAIN v)]

\* the position a Python index i denotes in an array of length n
\* (negative indices count from the end); -1 when it raises IndexError
PyIndex(n, i) ==
    IF 0 <= i /\ i < n THEN i
    ELSE IF -n <= i /\ i < 0 THEN i + n
    ELSE -1

\* math.ceil(a / b) for integers a >= 0, b > 0
ceil(a, b) == (a + b - 1) \div b

-----------------------------------------------------------------------------
(* The heap                                                                *)

\* the array a Python name is bound to
Arr(name) == heap[env[name]]

\* the heap with a new object v; its address is Len(h) + 1
New(h, v) == Append(h, v)


-----------------------------------------------------------------------------
(* Bounds of the model                                                     *)

MaxNe == 3       \* elements of a spectral-element run: ne \in 1..MaxNe
MaxNt == 3       \* time steps of a run: nt \in 1..MaxNt
MaxIdisp == 2    \* snapshot stride: idisp \in 1..MaxIdisp

\* Interpolation orders with rational GLL points, weights and derivatives
Orders == {1, 2}

\* signs of the density a run is given: no notebook checks that rho > 0
DensitySigns == {1, -1}

-----------------------------------------------------------------------------
(* External modules of the repository: gll.py, lagrange1st.py, ricker.py   *)

\* gll(N): the N+1 Gauss-Lobatto-Legendre points xi on [-1, 1] and their
\* integration weights w (the weights sum to 2)
gll(N) ==
    IF N = 1
    THEN [xi |-> (0 :> R(-1)) @@ (1 :> R(1)),
          w  |-> (0 :> R(1)) @@ (1 :> R(1))]
    ELSE [xi |-> (0 :> R(-1)) @@ (1 :> R(0)) @@ (2 :> R(1)),
          w  |-> (0 :> Rat(1, 3)) @@ (1 :> Rat(4, 3)) @@ (2 :> Rat(1, 3))]

\* lagrange1st(N)[i][k]: the derivative of the i-th Lagrange polynomial at
\* the k-th GLL point
lagrange1st(N) ==
    IF N = 1
    THEN (0 :> ((0 :> Rat(-1, 2)) @@ (1 :> Rat(-1, 2)))) @@
         (1 :> ((0 :> Rat(1, 2)) @@ (1 :> Rat(1, 2))))
    ELSE (0 :> ((0 :> Rat(-3, 2)) @@ (1 :> Rat(-1, 2)) @@ (2 :> Rat(1, 2)))) @@
         (1 :> ((0 :> R(2)) @@ (1 :> R(0)) @@ (2 :> R(-2)))) @@
         (2 :> ((0 :> Rat(-1, 2)) @@ (1 :> Rat(1, 2)) @@ (2 :> Rat(3, 2))))

\* ricker(dt, Tdom): a finite series of amplitudes; the model draws it from
\* this set (series are Python-indexed from 0)
SrcSeries ==
    { (0 :> R(0)) @@ (1 :> R(0)),
      (0 :> R(1)) @@ (1 :> R(2)),
      (0 :> R(1)) @@ (1 :> R(-2)) @@ (2 :> R(3)) @@ (3 :> R(-1)) }

-----------------------------------------------------------------------------
(* Spectral elements, 1D elastic: W9_se_homo_1d_solution and               *)
(* W9_se_hetero_1d_solution                                                *)

SE == {"se_homo", "se_hetero"}

\* Courant value of the notebook
eps(n) == IF n = "se_homo" THEN Rat(2, 10) ELSE Rat(1, 10)

\* xg: the physical coordinates of the N*ne + 1 GLL points of the domain
xg(N, ne, le, xi) ==
    [g \in 0 .. N * ne |->
        IF g = 0 THEN Zero
        ELSE LET i == ((g - 1) \div N) + 1
                 j == (g - 1) % N
             IN  RAdd(RMul(R(i - 1), le),
                      RMul(RMul(Rat(1, 2), RAdd(xi[j + 1], One)), le))]

\* min(np.diff(x))
mindiff(x) ==
    LET d == [g \in 0 .. Size(x) - 2 |-> RSub(x[g + 1], x[g])]
    IN  d[CHOOSE a \in DOMAIN d : \A b \in DOMAIN d : ~RLess(d[b], d[a])]

\* the setup cell: parameters, GLL points, grid, time step, Jacobian
SetupSE(n, N, ne, nt, idisp, xmax, vs, rho, src, dens) ==
    LET g == gll(N)
        le == RDiv(xmax, R(ne))
        x == xg(N, ne, le, g.xi)
        dxmin == mindiff(x)
        J == RDiv(le, R(2))
    IN  [N |-> N, ne |-> ne, nt |-> nt, idisp |-> idisp, xmax |-> xmax,
         vs |-> vs, rho |-> rho, xi |-> g.xi, w |-> g.w, le |-> le,
         xg |-> x, dxmin |-> dxmin, eps |-> eps(n),
         dt |-> RDiv(RMul(eps(n), dxmin), vs),
         J |-> J, Ji |-> RDiv(One, J), l1d |-> lagrange1st(N),
         src |-> src, dens |-> dens]

\* the numbers of time steps run for a notebook and an order
StepsSE(n, N) == IF n = "se_hetero" /\ N > 1 THEN MaxNt - 1 ELSE MaxNt

\* Me and Ke of the setup cell are the first two objects of the heap
InitSE ==
    /\ nb \in SE
    /\ \E N \in Orders, ne \in 1 .. MaxNe, idisp \in 1 .. MaxIdisp,
          src \in SrcSeries, sign \in DensitySigns,
          dens \in (IF nb = "se_hetero" THEN {"uniform", "layered"} ELSE {"uniform"}) :
          \E nt \in 1 .. StepsSE(nb, N) :
             par = SetupSE(nb, N, ne, nt, idisp, R(200), R(1), R(sign), src, dens)
    /\ pc = IF nb = "se_hetero" THEN "elastic" ELSE "mass"
    /\ loc = [k |-> 0]
    /\ heap = <<zeros(par.N + 1), zeros2(par.N + 1, par.N + 1)>>
    /\ env = [Me |-> 1, Ke |-> 2]
    /\ x_t = <<>>
    /\ saves = <<>>
    /\ hist = <<>>
    /\ err = "none"

\* an exception ends the run
Raise(e) ==
    /\ err' = e
    /\ pc' = "error"
    /\ UNCHANGED <<nb, par, loc, env, heap, x_t, saves, hist>>


\* rebinding of Python names: the bindings r replace those of e
Bind(e, r) == r @@ e

\* the positions the slice [a:b] selects in an array of length n
PySlice(n, a, b) ==
    LET clip(c) == IF c < 0 THEN (IF c + n < 0 THEN 0 ELSE c + n)
                   ELSE IF c > n THEN n ELSE c
    IN  clip(a) .. clip(b) - 1

\* max(v)
vmax(v) == v[CHOOSE a \in DOMAIN v : \A b \in DOMAIN v : ~RLess(v[a], v[b])]

\* number of elements spanning the low velocity zone, and the reduction
el_span == 1
percent == Rat(4, 10)

\* the density model: rho * ones, or a denser upper half
Density(dens, rho, n) ==
    [g \in 0 .. n - 1 |->
        IF dens = "uniform" \/ g < n \div 2 THEN rho ELSE RMul(R(2), rho)]

\* the arrays vs, rho and mu of the cell "Elastic parameters"
LowVelocityZone(N, ne, vs0, rho0, dens) ==
    LET a == el_span * N + 1
        b == (N * ne + 1) \div 2
        v0 == [g \in 0 .. N * ne |-> vs0]
        zone == PySlice(N * ne + 1, b - (a \div 2), b + (a \div 2))
        v == [g \in 0 .. N * ne |->
                 IF g \in zone THEN RMul(vmax(v0), percent) ELSE v0[g]]
        r == Density(dens, rho0, N * ne + 1)
    IN  [vs |-> v, rho |-> r,
         mu |-> [g \in 0 .. N * ne |-> RMul(r[g], RMul(v[g], v[g]))]]

ElasticParameters ==
    /\ nb = "se_hetero"
    /\ pc = "elastic"
    /\ LET z == LowVelocityZone(par.N, par.ne, par.vs, par.rho, par.dens)
       IN  /\ heap' = heap \o <<z.vs, z.rho, z.mu>>
           /\ env' = Bind(env, [vs |-> Len(heap) + 1, rho |-> Len(heap) + 2,
                                mu |-> Len(heap) + 3])
    /\ pc' = "mass"
    /\ UNCHANGED <<nb, par, loc, x_t, saves, hist, err>>

\* number of global degrees of freedom
NG(N, ne) == (ne - 1) * N + N + 1

\* homogeneous elemental mass: Me[i] = rho * w[i] * J
ElementalMass(rho, w, J) == [l \in DOMAIN w |-> RMul(RMul(rho, w[l]), J)]

\* homogeneous notebook: elemental mass vector, then k, ng and M of the
\* global assembly
HomoElementalMass ==
    /\ nb = "se_homo"
    /\ pc = "mass"
    /\ LET ng == NG(par.N, par.ne)
       IN  /\ heap' = New([heap EXCEPT ![env.Me] = ElementalMass(par.rho, par.w, par.J)],
                          zeros(2 * ng))
           /\ env' = Bind(env, [M |-> Len(heap) + 1])
           /\ loc' = Bind(loc, [k |-> -1, ng |-> ng, i |-> 1, j |-> 0])
    /\ pc' = "mass_write"
    /\ UNCHANGED <<nb, par, x_t, saves, hist, err>>

\* heterogeneous notebook: k, m, ng and M of the global assembly
HeteroMassInit ==
    /\ nb = "se_hetero"
    /\ pc = "mass"
    /\ LET ng == NG(par.N, par.ne)
       IN  /\ heap' = New(heap, zeros(2 * ng))
           /\ env' = Bind(env, [M |-> Len(heap) + 1])
           /\ loc' = Bind(loc, [k |-> -1, m |-> -1, ng |-> ng, i |-> 1, j |-> 0])
    /\ pc' = "mass_elem"
    /\ UNCHANGED <<nb, par, x_t, saves, hist, err>>

\* a reading of rho that starts at m0 itself
RhoIndexFromM(m0, l) == m0 + l

\* the index of rho read for local node l when m had the value m0 at the
\* start of the element: the loop does m += 1 before every read
RhoIndex(m0, l) == m0 + 1 + l

\* the value of m after the elemental loop: N+1 increments, then m -= 1
NextM(m0, N) == m0 + (N + 1) - 1

\* heterogeneous notebook, start of element i: Me[l] = rho[m] * w[l] * J
HeteroElementalMass ==
    /\ nb = "se_hetero"
    /\ pc = "mass_elem"
    /\ LET rho == Arr("rho")
           at == [l \in 0 .. par.N |-> PyIndex(Size(rho), RhoIndex(loc.m, l))]
       IN  IF \E l \in 0 .. par.N : at[l] = -1
           THEN Raise("IndexError")
           ELSE /\ heap' = [heap EXCEPT ![env.Me] =
                               [l \in 0 .. par.N |->
                                   RMul(RMul(rho[at[l]], par.w[l]), par.J)]]
                /\ loc' = Bind(loc, [m |-> NextM(loc.m, par.N), j |-> 0])
                /\ pc' = "mass_write"
                /\ UNCHANGED <<nb, par, env, x_t, saves, hist, err>>

\* a write index with "k = k - 1" at the first node of every element, the
\* first element included
NextKEveryElement(k, i, j) == IF j = 0 THEN (k + 1) - 1 ELSE k + 1

\* a write index that gives every element N+1 entries of its own
NextKUnshared(k, i, j) == k + 1

\* the write index of the global assembly: k = k + 1, undone at the first
\* node of every element but the first (the node shared with element i-1)
NextK(k, i, j) == IF i > 1 /\ j = 0 THEN (k + 1) - 1 ELSE k + 1

\* one pass of the inner loop of the global assembly: M[k] = M[k] + Me[j]
MassWrite ==
    /\ nb \in SE
    /\ pc = "mass_write"
    /\ LET k == NextK(loc.k, loc.i, loc.j)
           p == PyIndex(Size(Arr("M")), k)
       IN  IF p = -1
           THEN Raise("IndexError")
           ELSE /\ heap' = [heap EXCEPT ![env.M][p] = RAdd(@, Arr("Me")[loc.j])]
                /\ IF loc.j < par.N
                   THEN /\ loc' = Bind(loc, [k |-> k, j |-> loc.j + 1])
                        /\ pc' = pc
                   ELSE /\ loc' = Bind(loc, [k |-> k, i |-> loc.i + 1, j |-> 0])
                        /\ pc' = IF loc.i = par.ne THEN "minv"
                                 ELSE IF nb = "se_hetero" THEN "mass_elem"
                                 ELSE "mass_write"
                /\ UNCHANGED <<nb, par, env, x_t, saves, hist, err>>

\* Minv = identity(ng) with Minv[i,i] = 1./M[i]
InverseMass(M, ng) ==
    [a \in 0 .. ng - 1 |->
        [b \in 0 .. ng - 1 |-> IF a = b THEN RDiv(One, M[a]) ELSE Zero]]

InvertMass ==
    /\ nb \in SE
    /\ pc = "minv"
    /\ heap' = New(heap, InverseMass(Arr("M"), loc.ng))
    /\ env' = Bind(env, [Minv |-> Len(heap) + 1])
    /\ pc' = "stiff"
    /\ UNCHANGED <<nb, par, loc, x_t, saves, hist, err>>

\* the positions K[i0+i] of the block of an element, i = -1 .. N-1, in an
\* axis of length n (-1: IndexError)
BlockIndex(n, i0, N) == [a \in 0 .. N |-> PyIndex(n, i0 + (a - 1))]

\* the local indices a block writes to global position g
Local(ix, g) == {a \in DOMAIN ix : ix[a] = g}

Max(S) == CHOOSE a \in S : \A b \in S : b <= a

\* K[i0+i, j0+j] = Ke[i+1, j+1] for i, j = -1 .. N-1 (ix has no -1)
OverwriteBlock(K, ix, Ke) ==
    [r \in DOMAIN K |-> [c \in DOMAIN K |->
        IF Local(ix, r) # {} /\ Local(ix, c) # {}
        THEN Ke[Max(Local(ix, r))][Max(Local(ix, c))]
        ELSE K[r][c]]]

\* K[i0+i, j0+j] += Ke[i+1, j+1] for i, j = -1 .. N-1 (ix has no -1)
AddBlock(K, ix, Ke) ==
    [r \in DOMAIN K |-> [c \in DOMAIN K |->
        RAdd(K[r][c],
             RSum([a \in DOMAIN ix |->
                      RSum([b \in DOMAIN ix |->
                               IF ix[a] = r /\ ix[b] = c THEN Ke[a][b] ELSE Zero],
                           DOMAIN ix)],
                  DOMAIN ix))]]

\* the homogeneous elemental matrix with the factor Ji**2 in place of Ji
HomoElementalStiffnessMatrixSquared(Ke, mu, w, Ji, l1d) ==
    [i \in DOMAIN w |-> [j \in DOMAIN w |->
        RAdd(Ke[i][j],
             RSum([k \in DOMAIN w |->
                      RMul(RMul(RMul(RMul(mu, w[k]), RMul(Ji, Ji)), l1d[i][k]), l1d[j][k])],
                  DOMAIN w))]]

\* homogeneous: Ke[i,j] = Ke[i,j] + mu*w[k]*Ji*l1d[i,k]*l1d[j,k], k = 0 .. N
HomoElementalStiffnessMatrix(Ke, mu, w, Ji, l1d) ==
    [i \in DOMAIN w |-> [j \in DOMAIN w |->
        RAdd(Ke[i][j],
             RSum([k \in DOMAIN w |->
                      RMul(RMul(RMul(RMul(mu, w[k]), Ji), l1d[i][k]), l1d[j][k])],
                  DOMAIN w))]]

\* first row (and column) of the interior of the block of element k
BlockStart(k, N) == (k - 1) * N + 1

\* the first interior node of element k instead of its shared node
SharedNodeInside(k, N) == (k - 1) * N + 1

\* the node element k shares with element k-1
SharedNode(k, N) == (k - 1) * N

HomoElementalStiffness ==
    /\ nb = "se_homo"
    /\ pc = "stiff"
    /\ LET mu == RMul(par.rho, RMul(par.vs, par.vs))
       IN  heap' = New([heap EXCEPT ![env.Ke] =
                           HomoElementalStiffnessMatrix(@, mu, par.w, par.Ji, par.l1d)],
                       zeros2(loc.ng, loc.ng))
    /\ env' = Bind(env, [K |-> Len(heap) + 1])
    /\ loc' = Bind(loc, [k |-> 1])
    /\ pc' = "stiff_block"
    /\ UNCHANGED <<nb, par, x_t, saves, hist, err>>

\* homogeneous, "values except at element boundaries": the block of element k
HomoGlobalBlock ==
    /\ nb = "se_homo"
    /\ pc = "stiff_block"
    /\ LET ix == BlockIndex(loc.ng, BlockStart(loc.k, par.N), par.N)
       IN  IF \E a \in DOMAIN ix : ix[a] = -1
           THEN Raise("IndexError")
           ELSE /\ heap' = [heap EXCEPT ![env.K] = OverwriteBlock(@, ix, Arr("Ke"))]
                /\ IF loc.k < par.ne
                   THEN loc' = Bind(loc, [k |-> loc.k + 1]) /\ pc' = pc
                   ELSE /\ loc' = Bind(loc, [k |-> 2])
                        /\ pc' = IF par.ne >= 2 THEN "stiff_shared" ELSE "time"
                /\ UNCHANGED <<nb, par, env, x_t, saves, hist, err>>

\* homogeneous, "values at element boundaries": K[i0,i0] = Ke[0,0] + Ke[N,N]
HomoSharedNode ==
    /\ nb = "se_homo"
    /\ pc = "stiff_shared"
    /\ LET i0 == PyIndex(loc.ng, SharedNode(loc.k, par.N))
           Ke == Arr("Ke")
       IN  IF i0 = -1
           THEN Raise("IndexError")
           ELSE /\ heap' = [heap EXCEPT ![env.K][i0][i0] = RAdd(Ke[0][0], Ke[par.N][par.N])]
                /\ loc' = Bind(loc, [k |-> loc.k + 1])
                /\ pc' = IF loc.k < par.ne THEN pc ELSE "time"
                /\ UNCHANGED <<nb, par, env, x_t, saves, hist, err>>

\* heterogeneous: K = zeros, xe = 0
HeteroStiffnessInit ==
    /\ nb = "se_hetero"
    /\ pc = "stiff"
    /\ heap' = New(heap, zeros2(loc.ng, loc.ng))
    /\ env' = Bind(env, [K |-> Len(heap) + 1])
    /\ loc' = Bind(loc, [xe |-> 0, e |-> 1])
    /\ pc' = "stiff_elem"
    /\ UNCHANGED <<nb, par, x_t, saves, hist, err>>

\* a reading of mu that does not move with the element
MuIndexLocal(q, xe) == q

\* the index of mu read at quadrature point k+1 (k = -1 .. N-1; q = k+1)
MuIndex(q, xe) == q + xe

\* heterogeneous: Ke[i+1,j+1] = sum over k of
\*   mu[k+1+xe] * w[k+1] * Ji**2 * J * l1d[i+1,k+1] * l1d[j+1,k+1]
\* (mx: the positions of mu read, without -1)
HeteroElementalStiffnessMatrix(mu, mx, w, Ji, J, l1d) ==
    [i \in DOMAIN w |-> [j \in DOMAIN w |->
        RSum([k \in DOMAIN w |->
                 RMul(RMul(RMul(RMul(RMul(mu[mx[k]], w[k]), RMul(Ji, Ji)), J),
                           l1d[i][k]), l1d[j][k])],
             DOMAIN w)]]

\* heterogeneous, element e: elemental matrix, xe += N, K += Ke
HeteroStiffnessElement ==
    /\ nb = "se_hetero"
    /\ pc = "stiff_elem"
    /\ LET mu == Arr("mu")
           mx == [q \in 0 .. par.N |-> PyIndex(Size(mu), MuIndex(q, loc.xe))]
           ix == BlockIndex(loc.ng, BlockStart(loc.e, par.N), par.N)
           Ke == HeteroElementalStiffnessMatrix(mu, mx, par.w, par.Ji, par.J, par.l1d)
       IN  IF (\E q \in DOMAIN mx : mx[q] = -1) \/ (\E a \in DOMAIN ix : ix[a] = -1)
           THEN Raise("IndexError")
           ELSE /\ heap' = [heap EXCEPT ![env.Ke] = Ke,
                                        ![env.K] = AddBlock(@, ix, Ke)]
                /\ loc' = Bind(loc, [xe |-> loc.xe + par.N, e |-> loc.e + 1])
                /\ pc' = IF loc.e < par.ne THEN pc ELSE "time"
                /\ UNCHANGED <<nb, par, env, x_t, saves, hist, err>>

-----------------------------------------------------------------------------
(* Time loops: what the notebooks share                                    *)

\* "name = <new array v>": a new object, and the name bound to it
Assign(h, e, name, v) ==
    [heap |-> New(h, v), env |-> Bind(e, name :> (Len(h) + 1))]

\* "uold, u = u, unew" followed by "K = Minv": the name of the stiffness
\* matrix is bound to another operator
RemapOperator(e, old, cur, new) ==
    Bind(e, (old :> e[cur]) @@ (cur :> e[new]) @@
            (IF "Minv" \in DOMAIN e THEN "K" :> e["Minv"] ELSE <<>>))

\* "u = unew" followed by "uold = u": both names end on the new array
RemapInTurn(e, old, cur, new) == Bind(e, (old :> e[new]) @@ (cur :> e[new]))

\* "uold, u = u, unew": the right-hand side is evaluated first
Remap(e, old, cur, new) == Bind(e, (old :> e[cur]) @@ (cur :> e[new]))

\* the arrays the names are bound to, by value
Fields(h, e, names) == [f \in names |-> h[e[f]]]

\* the row of the result buffer a snapshot of iteration it goes to:
\* int(it/idisp), it//idisp
Row(it, idisp) == it \div idisp

\* a snapshot at the last iteration of every stride instead of the first
DueAtEnd(it, idisp) == (it + 1) % idisp = 0

\* the snapshot condition: it % idisp == 0
Due(it, idisp) == it % idisp = 0

\* "results[:] = field": the field is written into every row
CopyRowBroadcast(h, e, results, row, field) ==
    [h EXCEPT ![e[results]] = [r \in DOMAIN h[e[results]] |-> h[e[field]]]]

\* "results[row] = field": the values of the field are copied into the row
CopyRow(h, e, results, row, field) ==
    [h EXCEPT ![e[results]][row] = h[e[field]]]

-----------------------------------------------------------------------------
(* Spectral elements: the time loop                                        *)

\* source location
SourceNode(ng) == ng \div 2

\* the cells before the loop: isrc; u = zeros(ng), uold = u, unew = u,
\* f = u; u_results; x_t = []
TimeInitSE ==
    /\ nb \in SE
    /\ pc = "time"
    /\ heap' = heap \o <<zeros(loc.ng),
                         zeros2(ceil(par.nt, par.idisp), par.N * par.ne + 1)>>
    /\ env' = Bind(env, [u |-> Len(heap) + 1, uold |-> Len(heap) + 1,
                         unew |-> Len(heap) + 1, f |-> Len(heap) + 1,
                         u_results |-> Len(heap) + 2])
    /\ loc' = Bind(loc, [isrc |-> SourceNode(loc.ng), it |-> 0])
    /\ x_t' = <<>>
    /\ pc' = "loop"
    /\ UNCHANGED <<nb, par, saves, hist, err>>

\* the sample of the source series read in iteration it: src[it-1]
SourceIndex(it) == it - 1

\* the node that receives the source: f[isrc-1]
ForceIndex(isrc) == isrc - 1

\* a force vector that keeps injecting the last sample read when the
\* series has ended
ForceVectorHeld(ng, src, it, fx, sx) ==
    [a \in 0 .. ng - 1 |->
        IF a = fx THEN src[IF sx = -1 THEN Size(src) - 1 ELSE sx] ELSE Zero]

\* a force of amplitude 1 at the source node, whatever the series holds
ForceVectorUnit(ng, src, it, fx, sx) ==
    [a \in 0 .. ng - 1 |-> IF a = fx THEN One ELSE Zero]

\* f = zeros(ng); if it < len(src): f[isrc-1] = src[it-1]
\* (fx, sx: the positions written and read)
ForceVector(ng, src, it, fx, sx) ==
    [a \in 0 .. ng - 1 |-> IF it < Size(src) /\ a = fx THEN src[sx] ELSE Zero]

\* unew = dt**2 * Minv @ (f - K @ u) + 2 * u - uold
Extrapolate(dt, Minv, K, f, u, uold) ==
    LET dt2Minv == [a \in DOMAIN Minv |-> VScale(RMul(dt, dt), Minv[a])]
    IN  VSub(VAdd(MatVec(dt2Minv, VSub(f, MatVec(K, u))), VScale(R(2), u)), uold)

\* one pass of the time loop
TimeStepSE ==
    /\ nb \in SE
    /\ pc = "loop"
    /\ LET it == loc.it
           fx == PyIndex(loc.ng, ForceIndex(loc.isrc))
           sx == PyIndex(Size(par.src), SourceIndex(it))
           row == PyIndex(Size(Arr("u_results")), Row(it, par.idisp))
       IN  IF it < Size(par.src) /\ (fx = -1 \/ sx = -1)
           THEN Raise("IndexError")
           ELSE LET s1 == Assign(heap, env, "f",
                                 ForceVector(loc.ng, par.src, it, fx, sx))
                    h1 == s1.heap
                    e1 == s1.env
                    s2 == Assign(h1, e1, "unew",
                                 Extrapolate(par.dt, h1[e1.Minv], h1[e1.K], h1[e1.f],
                                             h1[e1.u], h1[e1.uold]))
                    e3 == Remap(s2.env, "uold", "u", "unew")
                IN  IF Due(it, par.idisp) /\ row = -1
                    THEN Raise("IndexError")
                    ELSE /\ env' = e3
                         /\ x_t' = IF nb = "se_hetero" THEN Append(x_t, e3.u) ELSE x_t
                         /\ IF Due(it, par.idisp)
                            THEN /\ heap' = CopyRow(s2.heap, e3, "u_results", row, "u")
                                 /\ saves' = Append(saves, <<it, row>>)
                            ELSE /\ heap' = s2.heap
                                 /\ saves' = saves
                         /\ hist' = Append(hist, Fields(heap', e3, {"u"}))
                         /\ loc' = Bind(loc, [it |-> it + 1])
                         /\ pc' = IF it + 1 < par.nt THEN pc ELSE "done"
                         /\ UNCHANGED <<nb, par, err>>

\* the cells that assemble M, Minv and K
NextAssembly ==
    \/ ElasticParameters
    \/ HomoElementalMass
    \/ HeteroMassInit
    \/ HeteroElementalMass
    \/ MassWrite
    \/ InvertMass
    \/ HomoElementalStiffness
    \/ HomoGlobalBlock
    \/ HomoSharedNode
    \/ HeteroStiffnessInit
    \/ HeteroStiffnessElement

\* the spectral-element notebooks up to the time loop
SpecAssembly == InitSE /\ [][NextAssembly]_vars

NextSE ==
    \/ NextAssembly
    \/ TimeInitSE
    \/ TimeStepSE

\* the spectral-element notebooks, run from the first cell to the last
SpecSE == InitSE /\ [][NextSE]_vars

-----------------------------------------------------------------------------
(* Finite elements, 1D elastic: W7_fe_elastic_1d_solution                  *)

MaxNx == 4       \* grid points of the finite-element run: nx \in 3..MaxNx

\* the source time function: nt samples
SrcSamples(nt, kind) ==
    [a \in 0 .. nt - 1 |->
        IF kind = "zero" THEN Zero
        ELSE IF a % 2 = 0 THEN R(a + 1) ELSE R(-(a + 1))]

\* np.sqrt of a rational whose numerator and denominator are squares
ISqrt(n) == CHOOSE k \in 0 .. n : k * k = n

sqrt(a) == <<ISqrt(a[1]), ISqrt(a[2])>>

\* np.diff(x)
diff(x) == [a \in 0 .. Size(x) - 2 |-> RSub(x[a + 1], x[a])]

\* the setup cell: grid, element sizes, density, shear modulus, time step
SetupFE(nx, nt, idisp, xmax, vs, ro0, isx, src, dens) ==
    LET dx == RDiv(xmax, R(nx - 1))
        x == [a \in 0 .. nx - 1 |-> RMul(R(a), dx)]
        ro == Density(dens, ro0, nx)
        mu == [a \in 0 .. nx - 1 |-> RMul(ro[a], RMul(vs, vs))]
        c == [a \in 0 .. nx - 1 |-> sqrt(RDiv(mu[a], ro[a]))]
    IN  [nx |-> nx, nt |-> nt, idisp |-> idisp, xmax |-> xmax, vs |-> vs,
         ro0 |-> ro0, isx |-> isx, eps |-> Rat(5, 10), dx |-> dx, x |-> x,
         h |-> diff(x), ro |-> ro, mu |-> mu,
         dt |-> RDiv(RMul(RMul(Rat(5, 10), Rat(5, 10)), dx), vmax(c)),
         src |-> src, dens |-> dens]

\* u, uold, unew, p, pold, pnew are six arrays of their own
InitFE ==
    /\ nb = "fe"
    /\ \E nx \in 3 .. MaxNx, nt \in 1 .. MaxNt, idisp \in 1 .. MaxIdisp,
          kind \in {"zero", "pulse"}, dens \in {"uniform", "layered"},
          sign \in DensitySigns :
          par = SetupFE(nx, nt, idisp, R(96), R(1), R(3 * sign), nx \div 2,
                        SrcSamples(nt, kind), dens)
    /\ pc = "source"
    /\ loc = [it |-> 0]
    /\ heap = [a \in 1 .. 6 |-> zeros(par.nx)]
    /\ env = [u |-> 1, uold |-> 2, unew |-> 3, p |-> 4, pold |-> 5, pnew |-> 6]
    /\ x_t = <<>>
    /\ saves = <<>>
    /\ hist = <<>>
    /\ err = "none"

\* f = np.zeros(nx); f[isx:isx+1] = f[isx:isx+1] + 1.
SourceVector(nx, isx) ==
    [a \in 0 .. nx - 1 |-> IF a \in PySlice(nx, isx, isx + 1) THEN One ELSE Zero]

SourceFE ==
    /\ nb = "fe"
    /\ pc = "source"
    /\ heap' = New(heap, SourceVector(par.nx, par.isx))
    /\ env' = Bind(env, [f |-> Len(heap) + 1])
    /\ pc' = "mass"
    /\ UNCHANGED <<nb, par, loc, x_t, saves, hist, err>>

\* the loops over i, j in range(1, nx-1), then the corner elements
MassMatrix(nx, ro, h) ==
    [i \in 0 .. nx - 1 |-> [j \in 0 .. nx - 1 |->
        IF i = 0 /\ j = 0 THEN RDiv(RMul(ro[0], h[0]), R(3))
        ELSE IF i = nx - 1 /\ j = nx - 1 THEN RDiv(RMul(ro[nx - 1], h[nx - 2]), R(3))
        ELSE IF i \in 1 .. nx - 2 /\ j \in 1 .. nx - 2
        THEN IF j = i
             THEN RDiv(RAdd(RMul(ro[i - 1], h[i - 1]), RMul(ro[i], h[i])), R(3))
             ELSE IF j = i + 1 THEN RDiv(RMul(ro[i], h[i]), R(6))
             ELSE IF j = i - 1 THEN RDiv(RMul(ro[i - 1], h[i - 1]), R(6))
             ELSE Zero
        ELSE Zero]]

\* Gauss-Jordan elimination of the columns c, c+1, ... of A, applied to B;
\* <<>> when A is singular
RECURSIVE GaussJordan(_, _, _)
GaussJordan(A, B, c) ==
    LET n == Size(A)
        rows == {r \in c .. n - 1 : A[r][c] # Zero}
    IN  IF c = n THEN B
        ELSE IF rows = {} THEN <<>>
        ELSE LET q == CHOOSE r \in rows : \A t \in rows : r <= t
                 swap(X) == [X EXCEPT ![c] = X[q], ![q] = X[c]]
                 scale(X, pv) == [X EXCEPT ![c] = [b \in DOMAIN @ |-> RDiv(@[b], pv)]]
                 A1 == scale(swap(A), swap(A)[c][c])
                 B1 == scale(swap(B), swap(A)[c][c])
                 clear(X, Y) ==
                     [r \in DOMAIN X |->
                         IF r = c THEN X[r]
                         ELSE [b \in DOMAIN X[r] |->
                                  RSub(X[r][b], RMul(A1[r][c], Y[b]))]]
             IN  GaussJordan(clear(A1, A1[c]), clear(B1, B1[c]), c + 1)

\* np.linalg.inv(M)
inv(M) == GaussJordan(M, identity(Size(M)), 0)

MassMatrixFE ==
    /\ nb = "fe"
    /\ pc = "mass"
    /\ LET M == MassMatrix(par.nx, par.ro, par.h)
       IN  IF inv(M) = <<>>
           THEN Raise("LinAlgError")
           ELSE /\ heap' = heap \o <<M, inv(M)>>
                /\ env' = Bind(env, [M |-> Len(heap) + 1, Minv |-> Len(heap) + 2])
                /\ pc' = "stiffness"
                /\ UNCHANGED <<nb, par, loc, x_t, saves, hist, err>>

\* a stiffness matrix whose coupling K[i,i+1] reads mu of the right node
StiffnessMatrixRightNode(nx, mu, h) ==
    [i \in 0 .. nx - 1 |-> [j \in 0 .. nx - 1 |->
        IF i = 0 /\ j = 0 THEN RDiv(mu[0], h[0])
        ELSE IF i = nx - 1 /\ j = nx - 1 THEN RDiv(mu[nx - 1], h[nx - 2])
        ELSE IF i \in 1 .. nx - 2 /\ j \in 1 .. nx - 2
        THEN IF i = j THEN RAdd(RDiv(mu[i - 1], h[i - 1]), RDiv(mu[i], h[i]))
             ELSE IF i = j + 1 THEN RNeg(RDiv(mu[i - 1], h[i - 1]))
             ELSE IF i + 1 = j THEN RNeg(RDiv(mu[j], h[i]))
             ELSE Zero
        ELSE Zero]]

\* the loops over i, j in range(1, nx-1), then K[0,0] and K[nx-1,nx-1]
StiffnessMatrix(nx, mu, h) ==
    [i \in 0 .. nx - 1 |-> [j \in 0 .. nx - 1 |->
        IF i = 0 /\ j = 0 THEN RDiv(mu[0], h[0])
        ELSE IF i = nx - 1 /\ j = nx - 1 THEN RDiv(mu[nx - 1], h[nx - 2])
        ELSE IF i \in 1 .. nx - 2 /\ j \in 1 .. nx - 2
        THEN IF i = j THEN RAdd(RDiv(mu[i - 1], h[i - 1]), RDiv(mu[i], h[i]))
             ELSE IF i = j + 1 THEN RNeg(RDiv(mu[i - 1], h[i - 1]))
             ELSE IF i + 1 = j THEN RNeg(RDiv(mu[i], h[i]))
             ELSE Zero
        ELSE Zero]]

StiffnessMatrixFE ==
    /\ nb = "fe"
    /\ pc = "stiffness"
    /\ heap' = New(heap, StiffnessMatrix(par.nx, par.mu, par.h))
    /\ env' = Bind(env, [K |-> Len(heap) + 1])
    /\ pc' = "fd"
    /\ UNCHANGED <<nb, par, loc, x_t, saves, hist, err>>

\* Mfd[i,i] = 1./ro[i]
FDMassInverse(nx, ro) ==
    [i \in 0 .. nx - 1 |-> [j \in 0 .. nx - 1 |->
        IF i = j THEN RDiv(One, ro[i]) ELSE Zero]]

\* for 0 < i < nx-1: D[i+1,i] = 1, D[i-1,i] = 1, D[i,i] = -2; then
\* D = ro0 * vs**2 * D / dx**2
FDMatrix(nx, ro0, vs, dx) ==
    [r \in 0 .. nx - 1 |-> [c \in 0 .. nx - 1 |->
        LET d == IF 0 < c /\ c < nx - 1
                 THEN IF r = c + 1 \/ r = c - 1 THEN One
                      ELSE IF r = c THEN R(-2) ELSE Zero
                 ELSE Zero
        IN  RDiv(RMul(RMul(ro0, RMul(vs, vs)), d), RMul(dx, dx))]]

\* the cell of the finite-difference matrices; it rebinds dx = h[1]
FiniteDifferenceFE ==
    /\ nb = "fe"
    /\ pc = "fd"
    /\ IF PyIndex(Size(par.h), 1) = -1
       THEN Raise("IndexError")
       ELSE /\ heap' = heap \o <<FDMassInverse(par.nx, par.ro),
                                  FDMatrix(par.nx, par.ro0, par.vs, par.h[1])>>
            /\ env' = Bind(env, [Mfd |-> Len(heap) + 1, D |-> Len(heap) + 2])
            /\ par' = [par EXCEPT !.dx = par.h[1]]
            /\ pc' = "time"
            /\ UNCHANGED <<nb, loc, x_t, saves, hist, err>>

\* u_results and p_results
TimeInitFE ==
    /\ nb = "fe"
    /\ pc = "time"
    /\ heap' = heap \o <<zeros2(ceil(par.nt, par.idisp), par.nx),
                         zeros2(ceil(par.nt, par.idisp), par.nx)>>
    /\ env' = Bind(env, [u_results |-> Len(heap) + 1, p_results |-> Len(heap) + 2])
    /\ loc' = [it |-> 0]
    /\ pc' = "loop"
    /\ UNCHANGED <<nb, par, x_t, saves, hist, err>>

\* unew = (dt**2) * Minv @ (f*src[it] - K @ u) + 2*u - uold
ExtrapolateFE(dt, Minv, K, f, s, u, uold) ==
    Extrapolate(dt, Minv, K, VScale(s, f), u, uold)

\* pnew = (dt**2) * Mfd @ (f/dx*src[it] + D @ p) + 2*p - pold
ExtrapolateFD(dt, Mfd, D, f, dx, s, p, pold) ==
    LET dt2M == [a \in DOMAIN Mfd |-> VScale(RMul(dt, dt), Mfd[a])]
        fs == [a \in DOMAIN f |-> RMul(RDiv(f[a], dx), s)]
    IN  VSub(VAdd(MatVec(dt2M, VAdd(fs, MatVec(D, p))), VScale(R(2), p)), pold)

\* one pass of the time loop: finite elements, finite differences, snapshot
TimeStepFE ==
    /\ nb = "fe"
    /\ pc = "loop"
    /\ LET it == loc.it
           sx == PyIndex(Size(par.src), it)
           row == PyIndex(Size(Arr("u_results")), Row(it, par.idisp))
       IN  IF sx = -1 \/ (Due(it, par.idisp) /\ row = -1)
           THEN Raise("IndexError")
           ELSE LET s1 == Assign(heap, env, "unew",
                                 ExtrapolateFE(par.dt, Arr("Minv"), Arr("K"), Arr("f"),
                                               par.src[sx], Arr("u"), Arr("uold")))
                    e1 == Remap(s1.env, "uold", "u", "unew")
                    s2 == Assign(s1.heap, e1, "pnew",
                                 ExtrapolateFD(par.dt, Arr("Mfd"), Arr("D"), Arr("f"),
                                               par.dx, par.src[sx], Arr("p"), Arr("pold")))
                    e2 == Remap(s2.env, "pold", "p", "pnew")
                IN  /\ env' = e2
                    /\ IF Due(it, par.idisp)
                       THEN /\ heap' = CopyRow(CopyRow(s2.heap, e2, "u_results", row, "u"),
                                               e2, "p_results", row, "p")
                            /\ saves' = Append(saves, <<it, row>>)
                       ELSE /\ heap' = s2.heap
                            /\ saves' = saves
                    /\ hist' = Append(hist, Fields(heap', e2, {"u", "p"}))
                    /\ loc' = [it |-> it + 1]
                    /\ pc' = IF it + 1 < par.nt THEN pc ELSE "done"
                    /\ UNCHANGED <<nb, par, x_t, err>>

NextFE ==
    \/ SourceFE
    \/ MassMatrixFE
    \/ StiffnessMatrixFE
    \/ FiniteDifferenceFE
    \/ TimeInitFE
    \/ TimeStepFE

\* the finite-element notebook, run from the first cell to the last
SpecFE == InitFE /\ [][NextFE]_vars

\* the cells that assemble M, Minv, K and the finite-difference matrices
NextAssemblyFE ==
    \/ SourceFE
    \/ MassMatrixFE
    \/ StiffnessMatrixFE
    \/ FiniteDifferenceFE

\* the spectral-element and finite-element notebooks up to their time loops
SpecOperators == (InitSE \/ InitFE) /\ [][NextAssembly \/ NextAssemblyFE]_vars

-----------------------------------------------------------------------------
(* Functions of numpy the pseudospectral notebooks use                     *)

\* np.pi, rounded to a dyadic rational
pi == Rat(25, 8)

\* np.cos(a * np.pi / b) for a >= 0, b > 0, where the value is rational
\* (multiples of pi/2 and pi/3)
cospi(a, b) ==
    LET r == a % (2 * b)
        t == IF r > b THEN 2 * b - r ELSE r
    IN  IF t = 0 THEN One
        ELSE IF t = b THEN R(-1)
        ELSE IF 2 * t = b THEN Zero
        ELSE IF 3 * t = b THEN Rat(1, 2)
        ELSE IF 3 * t = 2 * b THEN Rat(-1, 2)
        ELSE NaN

\* 2^n
RECURSIVE Pow2(_)
Pow2(n) == IF n <= 0 THEN 1 ELSE 2 * Pow2(n - 1)

\* np.exp(z) for z <= 0, rounded to a dyadic rational: e is replaced by 2
\* and the exponent rounded to an integer, so the value is 1 at z = 0,
\* positive and nonincreasing in -z
exp(z) == Rat(1, Pow2(ceil(-z[1], z[2])))

\* v / max(v)
normalised(v) == [a \in DOMAIN v |-> RDiv(v[a], vmax(v))]

\* tmp = np.diff(ricker(dt, T0)); src = np.zeros(nt); src[0:np.size(tmp)] = tmp
\* (<<>> when tmp is longer than nt: the assignment raises ValueError)
SourceSeries(nt, r) ==
    LET tmp == diff(r)
    IN  IF Size(tmp) > nt THEN <<>>
        ELSE [a \in 0 .. nt - 1 |-> IF a < Size(tmp) THEN tmp[a] ELSE Zero]

\* "a[i] = v" for every position i of the set S: a write into the object
WriteAt(h, addr, S, v) ==
    [h EXCEPT ![addr] = [a \in DOMAIN h[addr] |-> IF a \in S THEN v ELSE h[addr][a]]]

-----------------------------------------------------------------------------
(* Chebyshev pseudospectral method, 1D elastic:                            *)
(* W5_ps_cheby_elastic_1d_solution                                         *)

\* orders nx whose collocation points cos(i*pi/nx) are rational
ChebyOrders == {1, 2, 3}

\* get_cheby_matrix without its last two statements: D[0,0] and D[nx,nx]
\* keep what the loop wrote
get_cheby_matrix_loop(nx) ==
    LET x == [ix \in 0 .. nx |-> cospi(ix, nx)]
        cx == [ix \in 0 .. nx |-> IF ix = 0 \/ ix = nx THEN R(2) ELSE One]
        sign(i, j) == IF (i + j) % 2 = 0 THEN One ELSE R(-1)
    IN  [i \in 0 .. nx |-> [j \in 0 .. nx |->
            IF i = j /\ i # 0 /\ i # nx
            THEN RDiv(RNeg(x[i]), RMul(R(2), RSub(One, RMul(x[i], x[i]))))
            ELSE RDiv(RMul(cx[i], sign(i, j)), RMul(cx[j], RSub(x[i], x[j])))]]

\* get_cheby_matrix with "D[nx,nx] = D[0,0]" as its last assignment
get_cheby_matrix_corner(nx) ==
    LET d00 == RDiv(RAdd(RMul(R(2), R(nx * nx)), One), R(6))
    IN  [[get_cheby_matrix_loop(nx) EXCEPT ![0][0] = d00] EXCEPT ![nx][nx] = d00]

\* get_cheby_matrix(nx); the entries D[0,0] and D[nx,nx] are first computed
\* by the off-diagonal formula (a division by zero) and then overwritten
get_cheby_matrix(nx) ==
    LET x == [ix \in 0 .. nx |-> cospi(ix, nx)]
        cx == [ix \in 0 .. nx |-> IF ix = 0 \/ ix = nx THEN R(2) ELSE One]
        sign(i, j) == IF (i + j) % 2 = 0 THEN One ELSE R(-1)
        D0 == [i \in 0 .. nx |-> [j \in 0 .. nx |->
                  IF i = j /\ i # 0 /\ i # nx
                  THEN RDiv(RNeg(x[i]), RMul(R(2), RSub(One, RMul(x[i], x[i]))))
                  ELSE RDiv(RMul(cx[i], sign(i, j)), RMul(cx[j], RSub(x[i], x[j])))]]
        d00 == RDiv(RAdd(RMul(R(2), R(nx * nx)), One), R(6))
        D1 == [D0 EXCEPT ![0][0] = d00]
    IN  [D1 EXCEPT ![nx][nx] = RNeg(D1[0][0])]

\* the setup cell; nt = int(round(tmax/dt)) with tmax = nt*dt
SetupCheby(nx, nt, idisp, c0, rho0, ricker) ==
    LET x == [ix \in 0 .. nx |-> cospi(ix, nx)]
        adiff == [a \in 0 .. nx - 1 |-> LET d == diff(x)[a] IN <<Abs(d[1]), d[2]>>]
        dxmin == RNeg(vmax([a \in DOMAIN adiff |-> RNeg(adiff[a])]))
    IN  [nx |-> nx, nt |-> nt, idisp |-> idisp, eps |-> Rat(14, 10),
         xs |-> nx \div 2, x |-> x,
         rho |-> [a \in 0 .. nx |-> rho0],
         c |-> [a \in 0 .. nx |-> c0],
         mu |-> [a \in 0 .. nx |-> RMul(rho0, RMul(c0, c0))],
         dxmin |-> dxmin, dxmax |-> vmax(adiff),
         dt |-> RDiv(RMul(Rat(14, 10), dxmin), c0),
         ricker |-> ricker]

InitCheby ==
    /\ nb = "cheby"
    /\ \E nx \in ChebyOrders, nt \in 1 .. MaxNt, idisp \in 1 .. MaxIdisp,
          r \in SrcSeries :
          par = SetupCheby(nx, nt, idisp, R(1), R(1), r)
    /\ pc = "source"
    /\ loc = [it |-> 0]
    /\ heap = [a \in 1 .. 4 |-> zeros(par.nx + 1)]
    /\ env = [u |-> 1, unew |-> 2, uold |-> 3, d2u |-> 4]
    /\ x_t = <<>>
    /\ saves = <<>>
    /\ hist = <<>>
    /\ err = "none"

\* the source cell: src, and the spatial source function sg
SourceCheby ==
    /\ nb = "cheby"
    /\ pc = "source"
    /\ LET src == SourceSeries(par.nt, par.ricker)
           sigma == RMul(Rat(15, 10), par.dxmax)
           x0 == par.x[par.xs]
           sg == [a \in 0 .. par.nx |->
                    exp(RMul(RDiv(R(-1), RMul(sigma, sigma)),
                             RMul(RSub(par.x[a], x0), RSub(par.x[a], x0))))]
       IN  IF src = <<>>
           THEN Raise("ValueError")
           ELSE /\ heap' = heap \o <<src, normalised(sg)>>
                /\ env' = Bind(env, [src |-> Len(heap) + 1, sg |-> Len(heap) + 2])
                /\ pc' = "time"
                /\ UNCHANGED <<nb, par, loc, x_t, saves, hist, err>>

\* D = get_cheby_matrix(nx); u_results
TimeInitCheby ==
    /\ nb = "cheby"
    /\ pc = "time"
    /\ heap' = heap \o <<get_cheby_matrix(par.nx),
                         zeros2(ceil(par.nt, par.idisp), par.nx + 1)>>
    /\ env' = Bind(env, [D |-> Len(heap) + 1, u_results |-> Len(heap) + 2])
    /\ pc' = "loop"
    /\ UNCHANGED <<nb, par, loc, x_t, saves, hist, err>>

\* du = mu * D @ u; du = D @ du/rho
SecondDerivative(D, mu, rho, u) ==
    LET muD == [i \in DOMAIN D |-> [j \in DOMAIN D |-> RMul(mu[j], D[i][j])]]
        du == MatVec(muD, u)
        Ddu == MatVec(D, du)
    IN  [i \in DOMAIN D |-> RDiv(Ddu[i], rho[i])]

\* unew = 2*u - uold + np.transpose(du) * dt**2
ExtrapolateCheby(dt, du, u, uold) ==
    VAdd(VSub(VScale(R(2), u), uold), VScale(RMul(dt, dt), du))

\* unew + sg*src[it]*dt**2/rho
AddSource(unew, sg, s, dt, rho) ==
    [a \in DOMAIN unew |->
        RAdd(unew[a], RDiv(RMul(RMul(sg[a], s), RMul(dt, dt)), rho[a]))]

\* one pass of the time loop
TimeStepCheby ==
    /\ nb = "cheby"
    /\ pc = "loop"
    /\ LET it == loc.it
           row == PyIndex(Size(Arr("u_results")), Row(it, par.idisp))
           s1 == Assign(heap, env, "du",
                        SecondDerivative(Arr("D"), par.mu, par.rho, Arr("u")))
           s2 == Assign(s1.heap, s1.env, "unew",
                        ExtrapolateCheby(par.dt, s1.heap[s1.env.du], Arr("u"), Arr("uold")))
           s3 == Assign(s2.heap, s2.env, "unew",
                        AddSource(s2.heap[s2.env.unew], Arr("sg"), Arr("src")[it],
                                  par.dt, par.rho))
           e4 == Remap(s3.env, "uold", "u", "unew")
           h4 == WriteAt(s3.heap, e4.u, {0, par.nx}, Zero)
       IN  IF Due(it, par.idisp) /\ row = -1
           THEN Raise("IndexError")
           ELSE /\ env' = e4
                /\ IF Due(it, par.idisp)
                   THEN /\ heap' = CopyRow(h4, e4, "u_results", row, "u")
                        /\ saves' = Append(saves, <<it, row>>)
                   ELSE /\ heap' = h4
                        /\ saves' = saves
                /\ hist' = Append(hist, Fields(heap', e4, {"u"}))
                /\ loc' = [it |-> it + 1]
                /\ pc' = IF it + 1 < par.nt THEN pc ELSE "done"
                /\ UNCHANGED <<nb, par, x_t, err>>

NextCheby ==
    \/ SourceCheby
    \/ TimeInitCheby
    \/ TimeStepCheby

\* the Chebyshev notebook, run from the first cell to the last
SpecCheby == InitCheby /\ [][NextCheby]_vars

-----------------------------------------------------------------------------
(* get_cheby_matrix(nx) called on its own, statement by statement          *)

\* the arguments of the call: the orders of the notebook and degenerate ones
ChebyArguments == {-2, -1, 0} \cup ChebyOrders

\* a run of a notebook, not a call of a function on its own
NotebookRun == nb # "cheby_matrix"

InitChebyMatrix ==
    /\ nb = "cheby_matrix"
    /\ \E nx \in ChebyArguments : par = [nx |-> nx]
    /\ pc = "alloc"
    /\ loc = [ix |-> 0]
    /\ heap = <<>>
    /\ env = <<>>
    /\ x_t = <<>>
    /\ saves = <<>>
    /\ hist = <<>>
    /\ err = "none"

\* cx = np.zeros(nx+1); x = np.zeros(nx+1): a negative size raises ValueError
ChebyAllocate ==
    /\ nb = "cheby_matrix"
    /\ pc = "alloc"
    /\ IF par.nx + 1 < 0
       THEN Raise("ValueError")
       ELSE /\ heap' = <<zeros(par.nx + 1), zeros(par.nx + 1)>>
            /\ env' = [cx |-> 1, x |-> 2]
            /\ pc' = IF par.nx + 1 > 0 THEN "nodes" ELSE "weights"
            /\ UNCHANGED <<nb, par, loc, x_t, saves, hist, err>>

\* one pass of "for ix in range(0,nx+1): x[ix] = np.cos(np.pi * ix / nx)";
\* np.pi * ix is a Python float, and its division by nx = 0 raises
ChebyNode ==
    /\ nb = "cheby_matrix"
    /\ pc = "nodes"
    /\ IF par.nx = 0
       THEN Raise("ZeroDivisionError")
       ELSE /\ heap' = [heap EXCEPT ![env.x][loc.ix] = cospi(loc.ix, par.nx)]
            /\ loc' = [ix |-> loc.ix + 1]
            /\ pc' = IF loc.ix < par.nx THEN pc ELSE "weights"
            /\ UNCHANGED <<nb, par, env, x_t, saves, hist, err>>

\* cx[0] = 2.; cx[nx] = 2.; cx[1:nx] = 1.; D = np.zeros((nx+1,nx+1))
ChebyWeights ==
    /\ nb = "cheby_matrix"
    /\ pc = "weights"
    /\ LET n == Size(Arr("cx"))
           ends == {PyIndex(n, 0), PyIndex(n, par.nx)}
       IN  IF -1 \in ends
           THEN Raise("IndexError")
           ELSE /\ heap' = New([heap EXCEPT ![env.cx] =
                                   [a \in DOMAIN @ |->
                                       IF a \in PySlice(n, 1, par.nx) THEN One
                                       ELSE IF a \in ends THEN R(2) ELSE @[a]]],
                               zeros2(par.nx + 1, par.nx + 1))
                /\ env' = Bind(env, [D |-> Len(heap) + 1])
                /\ loc' = [i |-> 0, j |-> 0]
                /\ pc' = "entries"
                /\ UNCHANGED <<nb, par, x_t, saves, hist, err>>

\* the value the double loop writes to D[i,j]; for i = j = 0 and i = j = nx
\* the second formula divides by cx[j]*(x[i]-x[i]) = 0 (numpy: inf)
ChebyEntryValue(x, cx, nx, i, j) ==
    IF i = j /\ i # 0 /\ i # nx
    THEN RDiv(RNeg(x[i]), RMul(R(2), RSub(One, RMul(x[i], x[i]))))
    ELSE RDiv(RMul(cx[i], IF (i + j) % 2 = 0 THEN One ELSE R(-1)),
              RMul(cx[j], RSub(x[i], x[j])))

\* one pass of the inner loop over j; hist keeps D as it is after the write
ChebyEntry ==
    /\ nb = "cheby_matrix"
    /\ pc = "entries"
    /\ heap' = [heap EXCEPT ![env.D][loc.i][loc.j] =
                   ChebyEntryValue(Arr("x"), Arr("cx"), par.nx, loc.i, loc.j)]
    /\ hist' = Append(hist, Fields(heap', env, {"D"}))
    /\ IF loc.j < par.nx
       THEN loc' = [i |-> loc.i, j |-> loc.j + 1] /\ pc' = pc
       ELSE /\ loc' = [i |-> loc.i + 1, j |-> 0]
            /\ pc' = IF loc.i < par.nx THEN pc ELSE "corners"
    /\ UNCHANGED <<nb, par, env, x_t, saves, err>>

\* D[0,0] = (2.*nx**2+1.)/6.; D[nx,nx] = -D[0,0]; return D
ChebyCorners ==
    /\ nb = "cheby_matrix"
    /\ pc = "corners"
    /\ LET d00 == RDiv(RAdd(RMul(R(2), R(par.nx * par.nx)), One), R(6))
       IN  heap' = [heap EXCEPT ![env.D] =
                       [[@ EXCEPT ![0][0] = d00] EXCEPT ![par.nx][par.nx] = RNeg(d00)]]
    /\ pc' = "return"
    /\ UNCHANGED <<nb, par, loc, env, x_t, saves, hist, err>>

NextChebyMatrix ==
    \/ ChebyAllocate
    \/ ChebyNode
    \/ ChebyWeights
    \/ ChebyEntry
    \/ ChebyCorners

-----------------------------------------------------------------------------
(* Fourier pseudospectral method, 1D acoustic: W5_ps_fourier_acoustic_1d   *)

MaxNxFourier == 6    \* grid points of a Fourier run: nx \in 2..MaxNxFourier

\* the vector with "k[int(nx/2):] = k[int(nx/2):] * dk - kmax": the upper
\* half counted on from nx/2 instead of from 0
wavenumbers_ascending(nx, dx) ==
    LET kmax == RDiv(pi, dx)
        dk == RDiv(kmax, Rat(nx, 2))
    IN  [a \in 0 .. nx - 1 |->
           IF a < nx \div 2 THEN RMul(R(a), dk) ELSE RSub(RMul(R(a), dk), kmax)]

\* the wavenumber vector k of fourier_derivative_2nd (<<>> when
\* "k[int(nx/2):] = k[:int(nx/2)] - kmax" raises ValueError: the two slices
\* have different lengths and the right one is not of length 1)
wavenumbers(nx, dx) ==
    LET kmax == RDiv(pi, dx)
        dk == RDiv(kmax, Rat(nx, 2))
        half == nx \div 2
        low == [a \in 0 .. half - 1 |-> RMul(R(a), dk)]
    IN  IF half # nx - half /\ half # 1 THEN <<>>
        ELSE [a \in 0 .. nx - 1 |->
                 IF a < half THEN low[a]
                 ELSE RSub(low[IF half = 1 THEN 0 ELSE a - half], kmax)]

\* fourier_derivative_2nd(f, dx) = real(ifft((1j*k)**2 * fft(f))): for real
\* f and k the real part is
\*   df[j] = 1/nx * sum over m, l of -k[m]^2 * f[l] * cos(2*pi*m*(j-l)/nx)
fourier_derivative_2nd(f, dx) ==
    LET nx == Size(f)
        k == wavenumbers(nx, dx)
        I == 0 .. nx - 1
        g == [q \in I |->
                 RSum([m \in I |-> RMul(RNeg(RMul(k[m], k[m])), cospi(2 * m * q, nx))], I)]
    IN  IF k = <<>> THEN <<>>
        ELSE [j \in I |->
                 RDiv(RSum([l \in I |-> RMul(g[(j - l + nx) % nx], f[l])], I), R(nx))]

\* sizes nx for which the cosines of the transform are rational, or for
\* which the wavenumber vector cannot be built
FourierSizes == {nx \in 2 .. MaxNxFourier : nx \in {2, 3, 4, 6} \/ wavenumbers(nx, One) = <<>>}

\* the setup cell; the three aliasing lines
\*   p = np.zeros(nx) ; pnew = p ; pold = p ; d2p = p; dp = p
\*   ap = np.zeros(nx); apnew = ap; apold = ap; ad2p = ap; adp = ap
\*   sp = np.zeros(nx); spnew = sp; spold = sp; sd2p = sp; sdp = p
\* bind the names of each line to one object
SetupFourier(nx, nt, idisp, c, isx, length, ricker) ==
    LET dx == RDiv(length, R(nx - 1))
    IN  [nx |-> nx, nt |-> nt, idisp |-> idisp, c |-> c, eps |-> Rat(2, 10),
         isx |-> isx, dx |-> dx, x |-> [a \in 0 .. nx - 1 |-> RMul(R(a), dx)],
         dt |-> RDiv(RMul(Rat(2, 10), dx), c), ricker |-> ricker]

InitFourier ==
    /\ nb = "fourier"
    /\ \E nx \in FourierSizes, nt \in 1 .. MaxNt, idisp \in 1 .. MaxIdisp,
          r \in SrcSeries :
          par = SetupFourier(nx, nt, idisp, R(1), nx \div 2, R(60), r)
    /\ pc = "source"
    /\ loc = [it |-> 0]
    /\ heap = [a \in 1 .. 3 |-> zeros(par.nx)]
    /\ env = [p |-> 1, pnew |-> 1, pold |-> 1, d2p |-> 1, dp |-> 1,
              ap |-> 2, apnew |-> 2, apold |-> 2, ad2p |-> 2, adp |-> 2,
              sp |-> 3, spnew |-> 3, spold |-> 3, sd2p |-> 3, sdp |-> 1]
    /\ x_t = <<>>
    /\ saves = <<>>
    /\ hist = <<>>
    /\ err = "none"

\* the source cell: src, and sg = exp(-1/sigma**2 * (x - x0)**2) / max
SourceFourier ==
    /\ nb = "fourier"
    /\ pc = "source"
    /\ LET src == SourceSeries(par.nt, par.ricker)
           sigma == RMul(R(2), par.dx)
           ix0 == PyIndex(par.nx, par.isx - 1)
           sg == [a \in 0 .. par.nx - 1 |->
                    exp(RMul(RDiv(R(-1), RMul(sigma, sigma)),
                             RMul(RSub(par.x[a], par.x[ix0]), RSub(par.x[a], par.x[ix0]))))]
       IN  IF src = <<>> THEN Raise("ValueError")
           ELSE IF ix0 = -1 THEN Raise("IndexError")
           ELSE /\ heap' = heap \o <<src, normalised(sg)>>
                /\ env' = Bind(env, [src |-> Len(heap) + 1, sg |-> Len(heap) + 2])
                /\ pc' = "time"
                /\ UNCHANGED <<nb, par, loc, x_t, saves, hist, err>>

\* p_results, ap_results, sp_results
TimeInitFourier ==
    /\ nb = "fourier"
    /\ pc = "time"
    /\ heap' = heap \o [a \in 1 .. 3 |-> zeros2(ceil(par.nt, par.idisp), par.nx)]
    /\ env' = Bind(env, [p_results |-> Len(heap) + 1, ap_results |-> Len(heap) + 2,
                         sp_results |-> Len(heap) + 3])
    /\ pc' = "loop"
    /\ UNCHANGED <<nb, par, loc, x_t, saves, hist, err>>

\* -1/12*a2 + 4/3*a1 - 5/2*a0 + 4/3*b1 - 1/12*b2
FivePoint(a2, a1, a0, b1, b2) ==
    RSub(RAdd(RSub(RAdd(RMul(Rat(-1, 12), a2), RMul(Rat(4, 3), a1)),
                   RMul(Rat(5, 2), a0)),
              RMul(Rat(4, 3), b1)),
         RMul(Rat(1, 12), b2))

\* the loops "for i in range(w, nx-w): d[i] = (...)/dx**2" of the 3-point
\* (w = 1) and the 5-point (w = 2) operator; d and p are addresses, and
\* every write goes into the object d before the next i is read
RECURSIVE Differences(_, _, _, _, _, _)
Differences(h, d, p, i, w, dx) ==
    IF i >= Size(h[p]) - w THEN h
    ELSE LET q == h[p]
             three == RAdd(RSub(q[i + 1], RMul(R(2), q[i])), q[i - 1])
             five == FivePoint(q[i + 2], q[i + 1], q[i], q[i - 1], q[i - 2])
             v == RDiv(IF w = 1 THEN three ELSE five, RMul(dx, dx))
         IN  CHOOSE r \in {Differences(g, d, p, i + 1, w, dx) : g \in {[h EXCEPT ![d][i] = v]}} :
                 TRUE

\* the four lines every scheme of the notebook ends with:
\*   new = 2*cur - old + c**2 * dt**2 * d2;  new = new + sg*src[it]*dt**2
\*   old, cur = cur, new;  cur[a] = 0 for the two boundary indices
UpdateAcoustic(h, e, c, dt, sg, s, cur, old, new, d2, boundary) ==
    LET s1 == Assign(h, e, new,
                     VAdd(VSub(VScale(R(2), h[e[cur]]), h[e[old]]),
                          VScale(RMul(RMul(c, c), RMul(dt, dt)), h[e[d2]])))
        s2 == Assign(s1.heap, s1.env, new,
                     [a \in DOMAIN sg |->
                         RAdd(s1.heap[s1.env[new]][a],
                              RMul(RMul(sg[a], s), RMul(dt, dt)))])
        e3 == Remap(s2.env, old, cur, new)
    IN  [heap |-> WriteAt(s2.heap, e3[cur], boundary, Zero), env |-> e3]

\* one pass of the time loop: Fourier, 3-point and 5-point scheme, snapshot
TimeStepFourier ==
    /\ nb = "fourier"
    /\ pc = "loop"
    /\ LET it == loc.it
           nx == par.nx
           row == PyIndex(Size(Arr("p_results")), Row(it, par.idisp))
           d == fourier_derivative_2nd(Arr("sp"), par.dx)
           sg == Arr("sg")
           s == Arr("src")[it]
       IN  IF d = <<>> THEN Raise("ValueError")
           ELSE IF Due(it, par.idisp) /\ row = -1 THEN Raise("IndexError")
           ELSE \E s1 \in {Assign(heap, env, "sd2p", d)} :
                \E s2 \in {UpdateAcoustic(s1.heap, s1.env, par.c, par.dt, sg, s,
                                           "sp", "spold", "spnew", "sd2p", {1, nx - 1})} :
                \E h3 \in {Differences(s2.heap, s2.env.d2p, s2.env.p, 1, 1, par.dx)} :
                \E s4 \in {UpdateAcoustic(h3, s2.env, par.c, par.dt, sg, s,
                                           "p", "pold", "pnew", "d2p", {0, nx - 1})} :
                \E h5 \in {Differences(s4.heap, s4.env.ad2p, s4.env.ap, 2, 2, par.dx)} :
                \E s6 \in {UpdateAcoustic(h5, s4.env, par.c, par.dt, sg, s,
                                           "ap", "apold", "apnew", "ad2p", {0, nx - 1})} :
                   /\ env' = s6.env
                   /\ IF Due(it, par.idisp)
                      THEN /\ heap' = CopyRow(CopyRow(CopyRow(s6.heap, s6.env, "p_results", row, "p"),
                                                      s6.env, "ap_results", row, "ap"),
                                              s6.env, "sp_results", row, "sp")
                           /\ saves' = Append(saves, <<it, row>>)
                      ELSE /\ heap' = s6.heap
                           /\ saves' = saves
                   /\ hist' = Append(hist, Fields(heap', s6.env, {"p", "ap", "sp"}))
                   /\ loc' = [it |-> it + 1]
                   /\ pc' = IF it + 1 < par.nt THEN pc ELSE "done"
                   /\ UNCHANGED <<nb, par, x_t, err>>

NextFourier ==
    \/ SourceFourier
    \/ TimeInitFourier
    \/ TimeStepFourier

\* the 1D Fourier notebook, run from the first cell to the last
SpecFourier == InitFourier /\ [][NextFourier]_vars

-----------------------------------------------------------------------------
(* Fourier pseudospectral method, 2D acoustic (unnamed/part_000)           *)

\* the setup cell: nz = nx, isx = int(nx/2), isz = int(nz/2)
SetupFourier2D(nx, nt, idisp, c, xmax, ricker) ==
    LET dx == RDiv(xmax, R(nx - 1))
        x == [a \in 0 .. nx - 1 |-> RMul(R(a), dx)]
    IN  [nx |-> nx, nz |-> nx, nt |-> nt, idisp |-> idisp, c |-> c,
         eps |-> Rat(2, 10), isx |-> nx \div 2, isz |-> nx \div 2,
         xmax |-> xmax, dx |-> dx, x |-> x, z |-> x,
         dt |-> RDiv(RMul(Rat(2, 10), dx), c), ricker |-> ricker]

\* -np.abs(A[r0:r1, c0:c1]) for 0 <= r0 <= r1 <= rows, 0 <= c0 <= c1 <= columns
Section(A, r0, r1, c0, c1) ==
    [i \in 0 .. r1 - r0 - 1 |->
        [j \in 0 .. c1 - c0 - 1 |->
            LET v == A[r0 + i][c0 + j] IN <<-Abs(v[1]), v[2]>>]]

\* A.T of a matrix with the given number of columns
Transpose(A, columns) == [j \in 0 .. columns - 1 |-> [i \in DOMAIN A |-> A[i][j]]]

\* sp_sec = -np.abs(sp[1:int(nx/2), 1:int(nz/2)])
\* ap_sec = -np.abs(ap[int(nx/2):nx, 1:int(nz/2)].T)
Sections(h, e, nx, nz) ==
    LET s1 == Assign(h, e, "sp_sec", Section(h[e.sp], 1, nx \div 2, 1, nz \div 2))
    IN  Assign(s1.heap, s1.env, "ap_sec",
               Transpose(Section(h[e.ap], nx \div 2, nx, 1, nz \div 2), nz \div 2 - 1))

\* time steps of a run on nx * nx points (the exact values of larger grids
\* outgrow the integers of the model checker one step earlier)
StepsFourier2D(nx) == IF nx > 4 THEN MaxNt - 1 ELSE MaxNt

InitFourier2D ==
    /\ nb = "fourier2d"
    /\ \E nx \in FourierSizes, idisp \in 1 .. MaxIdisp, r \in SrcSeries :
          \E nt \in 1 .. StepsFourier2D(nx) :
             par = SetupFourier2D(nx, nt, idisp, R(1), R(60), r)
    /\ pc = "source"
    /\ loc = [it |-> 0]
    /\ LET names == <<"ap", "apnew", "apold", "ad2px", "ad2pz",
                      "sp", "spnew", "spold", "sd2px", "sd2pz">>
           h0 == [a \in 1 .. 10 |-> zeros2(par.nx, par.nz)]
           e0 == [n \in {names[a] : a \in 1 .. 10} |->
                     CHOOSE a \in 1 .. 10 : names[a] = n]
           s == Sections(h0, e0, par.nx, par.nz)
       IN  heap = s.heap /\ env = s.env
    /\ x_t = <<>>
    /\ saves = <<>>
    /\ hist = <<>>
    /\ err = "none"

\* the source cell: src and the normalised Gaussian sg
SourceFourier2D ==
    /\ nb = "fourier2d"
    /\ pc = "source"
    /\ LET src == SourceSeries(par.nt, par.ricker)
           sigma == RMul(Rat(15, 10), par.dx)
           ix0 == PyIndex(par.nx, par.isx - 1)
           iz0 == PyIndex(par.nx, par.isz - 1)
           sq(a) == RMul(a, a)
           sg == [i \in 0 .. par.nx - 1 |-> [j \in 0 .. par.nz - 1 |->
                    exp(RMul(RDiv(R(-1), sq(sigma)),
                             RAdd(sq(RSub(par.x[i], par.x[ix0])),
                                  sq(RSub(par.z[j], par.z[iz0])))))]]
           top == vmax([a \in 0 .. par.nx * par.nz - 1 |-> sg[a \div par.nz][a % par.nz]])
       IN  IF src = <<>> THEN Raise("ValueError")
           ELSE IF ix0 = -1 \/ iz0 = -1 THEN Raise("IndexError")
           ELSE /\ heap' = heap \o <<src, [i \in DOMAIN sg |-> VScale(RDiv(One, top), sg[i])]>>
                /\ env' = Bind(env, [src |-> Len(heap) + 1, sg |-> Len(heap) + 2])
                /\ pc' = "time"
                /\ UNCHANGED <<nb, par, loc, x_t, saves, hist, err>>

\* ap_results = zeros((ceil(nt/idisp), int(nx/2)-1, int(nz/2)))
\* sp_results = zeros((ceil(nt/idisp), nx-int(nx/2)-1, int(nz/2)-1))
TimeInitFourier2D ==
    /\ nb = "fourier2d"
    /\ pc = "time"
    /\ LET rows == 0 .. ceil(par.nt, par.idisp) - 1
           half == par.nx \div 2
       IN  heap' = heap \o <<[r \in rows |-> zeros2(half - 1, par.nz \div 2)],
                             [r \in rows |-> zeros2(par.nx - half - 1, par.nz \div 2 - 1)]>>
    /\ env' = Bind(env, [ap_results |-> Len(heap) + 1, sp_results |-> Len(heap) + 2])
    /\ pc' = "loop"
    /\ UNCHANGED <<nb, par, loc, x_t, saves, hist, err>>

\* one pass of the time loop: Fourier scheme, 5-point scheme, sections,
\* snapshot
TimeStepFourier2D ==
    /\ nb = "fourier2d"
    /\ pc = "loop"
    /\ LET it == loc.it
           nx == par.nx
           nz == par.nz
           half == nx \div 2
           I == 0 .. nx - 1
           K == 0 .. nz - 1
           row == PyIndex(Size(Arr("ap_results")), Row(it, par.idisp))
           sp == Arr("sp")
           ap == Arr("ap")
           sg == Arr("sg")
           s == Arr("src")[it]
           c2dt2 == RMul(RMul(par.c, par.c), RMul(par.dt, par.dt))
           \* sd2px[:,j] = fourier_derivative_2nd(sp[:,j].T, dx)
           columns == [j \in K |-> fourier_derivative_2nd([i \in I |-> sp[i][j]], par.dx)]
           \* sd2pz[i,:] = fourier_derivative_2nd(sp[i,:], dx)
           lines == [i \in I |-> fourier_derivative_2nd(sp[i], par.dx)]
           \* ad2px[i,:] for i in range(2, nz-2); ad2pz[:,i] for i in range(2, nx-2)
           ad2px == [i \in I |-> [j \in K |->
                        IF 2 <= i /\ i < nz - 2
                        THEN RDiv(FivePoint(ap[i + 2][j], ap[i + 1][j], ap[i][j],
                                            ap[i - 1][j], ap[i - 2][j]),
                                  RMul(par.dx, par.dx))
                        ELSE Arr("ad2px")[i][j]]]
           ad2pz == [i \in I |-> [j \in K |->
                        IF 2 <= j /\ j < nx - 2
                        THEN RDiv(FivePoint(ap[i][j + 2], ap[i][j + 1], ap[i][j],
                                            ap[i][j - 1], ap[i][j - 2]),
                                  RMul(par.dx, par.dx))
                        ELSE Arr("ad2pz")[i][j]]]
           \* new = 2*cur - old + c**2 * dt**2 * (d2x + d2z); new = new + sg*src[it]*dt**2
           Extrapolate2D(cur, old, d2x, d2z) ==
               [i \in I |-> [j \in K |->
                   RAdd(RAdd(RSub(RMul(R(2), cur[i][j]), old[i][j]),
                             RMul(c2dt2, RAdd(d2x[i][j], d2z[i][j]))),
                        RMul(RMul(sg[i][j], s), RMul(par.dt, par.dt)))]]
       IN  IF columns[0] = <<>> THEN Raise("ValueError")
           ELSE \E d2x \in {[i \in I |-> [j \in K |-> columns[j][i]]]} :
                \E h1 \in {[heap EXCEPT ![env.sd2px] = d2x, ![env.sd2pz] = lines,
                                        ![env.ad2px] = ad2px, ![env.ad2pz] = ad2pz]} :
                \E s2 \in {Assign(h1, env, "spnew",
                                  Extrapolate2D(sp, Arr("spold"), d2x, lines))} :
                \E s3 \in {Assign(s2.heap, Remap(s2.env, "spold", "sp", "spnew"), "apnew",
                                  Extrapolate2D(ap, Arr("apold"), ad2px, ad2pz))} :
                \E s4 \in {Sections(s3.heap, Remap(s3.env, "apold", "ap", "apnew"), nx, nz)} :
                   IF Due(it, par.idisp) /\ row = -1 THEN Raise("IndexError")
                   ELSE IF Due(it, par.idisp) /\ nx - half # half THEN Raise("ValueError")
                   ELSE /\ env' = s4.env
                        /\ IF Due(it, par.idisp)
                           THEN /\ heap' = CopyRow(CopyRow(s4.heap, s4.env, "ap_results", row, "ap_sec"),
                                                   s4.env, "sp_results", row, "sp_sec")
                                /\ saves' = Append(saves, <<it, row>>)
                           ELSE /\ heap' = s4.heap
                                /\ saves' = saves
                        /\ hist' = Append(hist, Fields(heap', s4.env, {"ap_sec", "sp_sec"}))
                        /\ loc' = [it |-> it + 1]
                        /\ pc' = IF it + 1 < par.nt THEN pc ELSE "done"
                        /\ UNCHANGED <<nb, par, x_t, err>>

NextFourier2D ==
    \/ SourceFourier2D
    \/ TimeInitFourier2D
    \/ TimeStepFourier2D

\* the 2D Fourier notebook, run from the first cell to the last
SpecFourier2D == InitFourier2D /\ [][NextFourier2D]_vars

-----------------------------------------------------------------------------
(* Static elasticity, finite elements and relaxation (unnamed/part_001)    *)

\* the boundary values u[0] = 0.15 and u[nx-1] = 0.05
Boundary(nx) == (0 :> Rat(15, 100)) @@ ((nx - 1) :> Rat(5, 100))

\* "u[0] = 0.15" without "u[nx-1] = 0.05"
PinLeft(h, addr, nx) == [h EXCEPT ![addr][0] = Boundary(nx)[0]]

\* "u[0] = 0.15; u[nx-1] = 0.05": writes into the object at addr
Pin(h, addr, nx) ==
    [h EXCEPT ![addr] = [a \in DOMAIN h[addr] |->
                            IF a \in DOMAIN Boundary(nx) THEN Boundary(nx)[a] ELSE h[addr][a]]]

\* spike location int(3*nx/4)
Spike(nx) == (3 * nx) \div 4

InitStatic ==
    /\ nb = "static"
    /\ \E nx \in 3 .. MaxNx + 1, nt \in 1 .. MaxNt, idisp \in 1 .. MaxIdisp :
          par = [nx |-> nx, nt |-> nt, idisp |-> idisp, mu |-> One,
                 x |-> [a \in 0 .. nx - 1 |-> Rat(a, nx - 1)],
                 h |-> RSub(Rat(2, nx - 1), Rat(1, nx - 1))]
    /\ pc = "fe"
    /\ loc = [it |-> 0]
    /\ heap = <<zeros(par.nx), zeros(par.nx)>>
    /\ env = [u |-> 1, f |-> 2]
    /\ x_t = <<>>
    /\ saves = <<>>
    /\ hist = <<>>
    /\ err = "none"

\* the finite-element cell: K, the source and boundary terms of f, the
\* solve for the interior points, xfe = u
SolveStatic ==
    /\ nb = "static"
    /\ pc = "fe"
    /\ LET nx == par.nx
           h == par.h
           K == [i \in 0 .. nx - 1 |-> [j \in 0 .. nx - 1 |->
                    IF i \in 1 .. nx - 2 /\ j \in 1 .. nx - 2
                    THEN IF i = j THEN RDiv(RMul(R(2), par.mu), h)
                         ELSE IF i = j + 1 \/ i + 1 = j THEN RDiv(RNeg(par.mu), h)
                         ELSE Zero
                    ELSE Zero]]
           u1 == Pin(heap, env.u, nx)[env.u]
           f1 == [Arr("f") EXCEPT ![Spike(nx)] = One]
           f2 == [f1 EXCEPT ![1] = RDiv(u1[0], h)]
           f3 == [f2 EXCEPT ![nx - 2] = RDiv(u1[nx - 1], h)]
           Kin == [i \in 0 .. nx - 3 |-> [j \in 0 .. nx - 3 |-> K[i + 1][j + 1]]]
           Ki == inv(Kin)
           sol == MatVec(Ki, [i \in 0 .. nx - 3 |-> f3[i + 1]])
       IN  IF Ki = <<>> THEN Raise("LinAlgError")
           ELSE /\ heap' = [heap EXCEPT ![env.u] = [a \in 0 .. nx - 1 |->
                                                       IF a \in 1 .. nx - 2 THEN sol[a - 1]
                                                       ELSE u1[a]],
                                        ![env.f] = f3] \o <<K>>
                /\ env' = Bind(env, [K |-> Len(heap) + 1, xfe |-> env.u])
                /\ pc' = "relax"
                /\ UNCHANGED <<nb, par, loc, x_t, saves, hist, err>>

\* the relaxation cell before its loop: u, du, f = zeros; the spike of f;
\* the boundary values; u_results
RelaxInit ==
    /\ nb = "static"
    /\ pc = "relax"
    /\ LET nx == par.nx
           f == [zeros(nx) EXCEPT ![Spike(nx)] = RDiv(One, par.h)]
           h1 == heap \o <<zeros(nx), zeros(nx), f, zeros2(ceil(par.nt, par.idisp), nx)>>
           e1 == Bind(env, [u |-> Len(heap) + 1, du |-> Len(heap) + 2, f |-> Len(heap) + 3,
                            u_results |-> Len(heap) + 4])
       IN  /\ heap' = Pin(h1, e1.u, nx)
           /\ env' = e1
    /\ pc' = "loop"
    /\ UNCHANGED <<nb, par, loc, x_t, saves, hist, err>>

\* a sweep "u[i] = u[i+1] + u[i-1]" that reads the value it has just
\* written at i-1 (left in du)
RECURSIVE Sweep(_, _, _)
Sweep(u, du, i) ==
    IF i > Size(u) - 2 THEN du
    ELSE Sweep(u, [du EXCEPT ![i] = RAdd(u[i + 1], IF i = 1 THEN u[0] ELSE du[i - 1])], i + 1)

NeighbourSumInPlace(u, du) == Sweep(u, du, 1)

\* "for i in range(1, nx-1): du[i] = u[i+1] + u[i-1]": du after the loop
NeighbourSum(u, du) ==
    [a \in DOMAIN du |->
        IF a \in 1 .. Size(u) - 2 THEN RAdd(u[a + 1], u[a - 1]) ELSE du[a]]

\* one relaxation step:
\*   for i in range(1, nx-1): du[i] = u[i+1] + u[i-1]
\*   u = 0.5*( f*h**2/mu + du ); u[0] = 0.15; u[nx-1] = 0.05; fd = u
RelaxStep ==
    /\ nb = "static"
    /\ pc = "loop"
    /\ LET it == loc.it
           nx == par.nx
           u == Arr("u")
           f == Arr("f")
           row == PyIndex(Size(Arr("u_results")), Row(it, par.idisp))
           du == NeighbourSum(u, Arr("du"))
           unew == [a \in 0 .. nx - 1 |->
                       RMul(Rat(5, 10),
                            RAdd(RDiv(RMul(f[a], RMul(par.h, par.h)), par.mu), du[a]))]
       IN  IF Due(it, par.idisp) /\ row = -1 THEN Raise("IndexError")
           ELSE \E s1 \in {Assign([heap EXCEPT ![env.du] = du], env, "u", unew)} :
                \E h2 \in {Pin(s1.heap, s1.env.u, nx)} :
                \E e2 \in {Bind(s1.env, [fd |-> s1.env.u])} :
                   /\ env' = e2
                   /\ IF Due(it, par.idisp)
                      THEN /\ heap' = CopyRow(h2, e2, "u_results", row, "fd")
                           /\ saves' = Append(saves, <<it, row>>)
                      ELSE /\ heap' = h2
                           /\ saves' = saves
                   /\ hist' = Append(hist, Fields(heap', e2, {"u"}))
                   /\ loc' = [it |-> it + 1]
                   /\ pc' = IF it + 1 < par.nt THEN pc ELSE "done"
                   /\ UNCHANGED <<nb, par, x_t, err>>

NextStatic ==
    \/ SolveStatic
    \/ RelaxInit
    \/ RelaxStep

\* the static-elasticity notebook, run from the first cell to the last
SpecStatic == InitStatic /\ [][NextStatic]_vars

-----------------------------------------------------------------------------
(* All notebooks                                                           *)

Init ==
    \/ InitSE
    \/ InitFE
    \/ InitCheby
    \/ InitChebyMatrix
    \/ InitFourier
    \/ InitFourier2D
    \/ InitStatic

Next ==
    \/ NextSE
    \/ NextFE
    \/ NextCheby
    \/ NextChebyMatrix
    \/ NextFourier
    \/ NextFourier2D
    \/ NextStatic

\* one run of one notebook, or one call of get_cheby_matrix
Spec == Init /\ [][Next]_vars

-----------------------------------------------------------------------------
(* Spectral elements: properties of the assembled mass and stiffness       *)

\* the global mass vector is complete
MassAssembled ==
    /\ nb \in SE
    /\ pc \in {"minv", "stiff", "stiff_block", "stiff_shared", "stiff_elem",
               "time", "loop", "done"}

\* node g = e*N, 1 <= e < ne, belongs to elements e and e+1
Shared(g) == g % par.N = 0 /\ 1 <= g \div par.N /\ g \div par.N < par.ne

\* the density at local node l of element e: rho[(e-1)*N + l]
RhoOf(e, l) ==
    IF nb = "se_hetero" THEN Arr("rho")[(e - 1) * par.N + l] ELSE par.rho

\* the elemental value w[l] * rho * J of local node l of element e
MeOf(e, l) == RMul(RMul(par.w[l], RhoOf(e, l)), par.J)

\* C7: after assembly, M at a shared node g = e*N is Me_e[N] + Me_(e+1)[0];
\* at every other node it is the one elemental value w[l]*rho*J of the local
\* node l of its element, with the density rho[(e-1)*N + l]
C7_LumpedMass ==
    MassAssembled =>
        \A g \in 0 .. par.N * par.ne :
            LET M == Arr("M")
                e == IF g = par.N * par.ne THEN par.ne ELSE (g \div par.N) + 1
                l == IF g = par.N * par.ne THEN par.N ELSE g % par.N
            IN  IF Shared(g)
                THEN M[g] = RAdd(MeOf(g \div par.N, par.N), MeOf((g \div par.N) + 1, 0))
                ELSE M[g] = MeOf(e, l)

C7_Witness ==
    /\ MassAssembled
    /\ nb = "se_hetero"
    /\ par.dens = "layered"
    /\ par.N = 2
    /\ par.ne >= 2
    /\ \E g \in 0 .. par.N * par.ne : Shared(g) /\ RhoOf(1, 0) # RhoOf(g \div par.N, par.N)

\* the sum over elements and local nodes of w[l] * rho[(e-1)*N + l]
WeightedDensity ==
    RSum([e \in 1 .. par.ne |->
             RSum([l \in 0 .. par.N |-> RMul(par.w[l], RhoOf(e, l))], 0 .. par.N)],
         1 .. par.ne)

\* C10: the ng assembled entries of M sum to J * sum of w[l]*rho[(e-1)*N+l],
\* which is rho * xmax for a uniform density
C10_TotalMass ==
    MassAssembled =>
        LET total == RSum(Arr("M"), 0 .. par.N * par.ne)
        IN  /\ RSum(par.w, DOMAIN par.w) = R(2)
            /\ total = RMul(par.J, WeightedDensity)
            /\ par.dens = "uniform" => total = RMul(par.rho, par.xmax)

C10_Witness ==
    /\ MassAssembled
    /\ pc = "minv"
    /\ nb = "se_hetero"
    /\ par.dens = "layered"
    /\ par.ne >= 2
    /\ RSum(Arr("M"), 0 .. par.N * par.ne) # RMul(par.rho, par.xmax)

\* the elements whose block is in K
Added ==
    IF pc = "stiff_elem" THEN loc.e - 1
    ELSE IF pc \in {"time", "loop", "done"} THEN par.ne
    ELSE 0

\* the elemental stiffness of element e with mu at the nodes (e-1)*N .. e*N
KeOf(e) ==
    LET mu == Arr("mu")
    IN  [a \in 0 .. par.N |-> [b \in 0 .. par.N |->
            RSum([k \in 0 .. par.N |->
                     RMul(RMul(RMul(RMul(RMul(mu[(e - 1) * par.N + k], par.w[k]),
                                         RMul(par.Ji, par.Ji)), par.J),
                               par.l1d[a][k]), par.l1d[b][k])],
                 0 .. par.N)]]

\* the global indices (e-1)*N .. e*N of element e
Span(e) == (e - 1) * par.N .. e * par.N

\* the elements that write to the diagonal entry of node g
Contributions(g) ==
    {e \in 1 .. par.ne :
        \E a \in 0 .. par.N : BlockStart(e, par.N) + (a - 1) = g}

\* C8: in the heterogeneous notebook element e adds its block to the rows
\* and columns (e-1)*N .. e*N, inside 0 .. ng-1, with mu at those indices; the
\* diagonal of a shared node e*N has two contributions, every other one
C8_HeteroStiffness ==
    nb = "se_hetero" =>
        /\ err = "none"
        /\ pc \in {"stiff_elem", "time", "loop", "done"} =>
               \A r \in 0 .. par.N * par.ne, c \in 0 .. par.N * par.ne :
                   Arr("K")[r][c] =
                       RSum([e \in 1 .. Added |->
                                IF r \in Span(e) /\ c \in Span(e)
                                THEN KeOf(e)[r - (e - 1) * par.N][c - (e - 1) * par.N]
                                ELSE Zero],
                            1 .. Added)
        /\ \A g \in 0 .. par.N * par.ne :
               /\ Contributions(g) \subseteq {e \in 1 .. par.ne : g \in Span(e)}
               /\ Cardinality(Contributions(g)) = IF Shared(g) THEN 2 ELSE 1

C8_Witness ==
    /\ nb = "se_hetero"
    /\ pc = "time"
    /\ par.ne >= 2
    /\ par.N = 2
    /\ \E g \in 0 .. par.N * par.ne :
           /\ Shared(g)
           /\ Arr("K")[g][g] = RAdd(KeOf(g \div par.N)[par.N][par.N],
                                    KeOf((g \div par.N) + 1)[0][0])
           /\ Arr("mu")[g] # Arr("mu")[0]

-----------------------------------------------------------------------------
(* Spectral elements: properties of the time loop                          *)

\* iteration loc.it - 1 has run and its force vector is bound to f
Stepped == nb \in SE /\ pc \in {"loop", "done"} /\ loc.it >= 1

\* C2: the amplitude injected at iteration it < len(src) is the it-th sample
\* of the source series (the first sample at the first step, every sample
\* at its own step)
C2_SamplesInOrder ==
    (Stepped /\ loc.it - 1 < Size(par.src)) =>
        Arr("f")[ForceIndex(loc.isrc)] = par.src[loc.it - 1]

-----------------------------------------------------------------------------
(* Spectral and finite elements: the three-term recurrence                 *)

\* the notebooks that extrapolate with Minv and K
Elements == SE \cup {"fe"}

\* the spectral-element and the finite-element notebooks
SpecElements == (InitSE \/ InitFE) /\ [][NextSE \/ NextFE]_vars

\* the source vector of iteration it
ForceAt(it) ==
    IF nb = "fe" THEN VScale(par.src[it], Arr("f"))
    ELSE ForceVector(loc.ng, par.src, it, PyIndex(loc.ng, ForceIndex(loc.isrc)),
                     PyIndex(Size(par.src), SourceIndex(it)))

\* term n of next = dt^2 * Minv * (f - K*current) + 2*current - previous,
\* with the terms 0 and -1 zero
RECURSIVE Term(_)
Term(n) ==
    IF n <= 0 THEN zeros(Size(Arr("K")))
    ELSE LET current == Term(n - 1)
             previous == Term(n - 2)
             residual == VSub(ForceAt(n - 1), MatVec(Arr("K"), current))
             dt2Minv(a, b) == RMul(RMul(par.dt, par.dt), Arr("Minv")[a][b])
         IN  [a \in DOMAIN current |->
                 RSub(RAdd(RSum([b \in DOMAIN current |-> RMul(dt2Minv(a, b), residual[b])],
                                DOMAIN current),
                           RMul(R(2), current[a])),
                      previous[a])]

\* C1: in the spectral-element and finite-element time loops, after n
\* iterations (0 <= n <= nt) the previous and the current field are the
\* terms n-1 and n of the three-term recurrence that starts from zero
C1_Recurrence ==
    (nb \in Elements /\ pc \in {"loop", "done"}) =>
        /\ Arr("u") = Term(loc.it)
        /\ Arr("uold") = Term(loc.it - 1)

C1_Witness ==
    /\ nb \in Elements
    /\ pc = "done"
    /\ loc.it >= 3
    /\ Arr("uold") # zeros(Size(Arr("K")))
    /\ Arr("u") # Arr("uold")
    /\ Arr("u") = Term(3)

-----------------------------------------------------------------------------
(* Finite elements: properties of the mass matrix                          *)

\* the sum of all entries of a square matrix
Total(A) == RSum([i \in DOMAIN A |-> RSum(A[i], DOMAIN A[i])], DOMAIN A)

\* C9: the entries of the finite-element mass matrix sum to the integral of
\* the density, the sum over the elements i of ro[i]*h[i] (rho*xmax for a
\* uniform density)
C9_TotalMass ==
    (nb = "fe" /\ pc \in {"stiffness", "fd", "time", "loop", "done"}) =>
        /\ Total(Arr("M")) =
               RSum([i \in 0 .. par.nx - 2 |-> RMul(par.ro[i], par.h[i])], 0 .. par.nx - 2)
        /\ par.dens = "uniform" => Total(Arr("M")) = RMul(par.ro0, par.xmax)

-----------------------------------------------------------------------------
(* Time loops of all notebooks: boundaries, snapshots, zero source         *)

\* the run is in its time loop or has finished it
InLoop == pc \in {"loop", "done"}

\* the result buffers of the notebook and the field each of them stores
Stored ==
    CASE nb = "fe" -> {<<"u_results", "u">>, <<"p_results", "p">>}
      [] nb = "fourier" -> {<<"p_results", "p">>, <<"ap_results", "ap">>,
                             <<"sp_results", "sp">>}
      [] nb = "fourier2d" -> {<<"ap_results", "ap_sec">>, <<"sp_results", "sp_sec">>}
      [] OTHER -> {<<"u_results", "u">>}

\* the current and the previous field of every scheme of the notebook
Levels ==
    CASE nb = "fe" -> {"u", "uold", "p", "pold"}
      [] nb = "fourier" -> {"p", "pold", "ap", "apold", "sp", "spold"}
      [] nb = "fourier2d" -> {"ap", "apold", "sp", "spold"}
      [] OTHER -> {"u", "uold"}

\* C3: at the end of every iteration of the Chebyshev loop and of the three
\* schemes of the 1D Fourier notebook, the first and the last grid point of
\* the current field are zero
C3_BoundariesZero ==
    (nb \in {"cheby", "fourier"} /\ InLoop /\ loc.it >= 1) =>
        \A b \in Stored :
            LET field == Arr(b[2])
            IN  field[0] = Zero /\ field[Size(field) - 1] = Zero

\* ceil(nt/idisp): the least r with r * idisp >= nt
Rows == CHOOSE r \in 0 .. par.nt : r * par.idisp >= par.nt /\ (r - 1) * par.idisp < par.nt

\* C4: in every time loop a snapshot is stored exactly at the iterations it
\* with it mod idisp = 0, into row it div idisp; the rows are pairwise
\* distinct and smaller than ceil(nt/idisp), no store is out of range, and
\* after the loop every one of the ceil(nt/idisp) rows has been written
\* exactly once
C4_Snapshots ==
    /\ NotebookRun => err # "IndexError"
    /\ InLoop =>
          /\ {saves[k][1] : k \in DOMAIN saves} =
                 {it \in 0 .. loc.it - 1 : it % par.idisp = 0}
          /\ \A k \in DOMAIN saves :
                 /\ saves[k][2] = saves[k][1] \div par.idisp
                 /\ saves[k][2] \in 0 .. Rows - 1
          /\ \A j, k \in DOMAIN saves : j # k => saves[j][2] # saves[k][2]
          /\ \A b \in Stored : Size(Arr(b[1])) = Rows
          /\ pc = "done" =>
                 /\ loc.it = par.nt
                 /\ {saves[k][2] : k \in DOMAIN saves} = 0 .. Rows - 1
                 /\ Len(saves) = Rows

C4_Witness ==
    /\ pc = "done"
    /\ nb = "fourier2d"
    /\ par.nt = 3
    /\ par.idisp = 2
    /\ saves = <<(<<0, 0>>), (<<2, 1>>)>>

\* C5: a stored snapshot is never changed by a later iteration: the row
\* written at iteration it still holds the field as it was at the end of
\* iteration it, and so does the entry x_t[it] of the space-time list of the
\* heterogeneous spectral-element notebook
C5_SnapshotsKept ==
    InLoop =>
        /\ \A k \in DOMAIN saves : \A b \in Stored :
               Arr(b[1])[saves[k][2]] = hist[saves[k][1] + 1][b[2]]
        /\ nb = "se_hetero" =>
               /\ Len(x_t) = loc.it
               /\ \A i \in DOMAIN x_t : heap[x_t[i]] = hist[i]["u"]

\* a snapshot of the Chebyshev field taken two iterations ago, after which
\* the boundary writes of the later iterations went into another field
C5_Witness ==
    /\ nb = "cheby"
    /\ InLoop
    /\ \E k \in DOMAIN saves :
          /\ saves[k][1] + 2 <= loc.it
          /\ Arr("u_results")[saves[k][2]] # Arr("u")
          /\ Arr("u_results")[saves[k][2]] # zeros(par.nx + 1)

\* zero at every index, for a vector, a matrix or a buffer of either
RECURSIVE IsZero(_)
IsZero(A) ==
    IF DOMAIN A = {1, 2} THEN A = Zero
    ELSE \A a \in DOMAIN A : IsZero(A[a])

\* the notebooks that extrapolate a wave field driven by a source series
Waves == {"se_homo", "se_hetero", "fe", "cheby", "fourier", "fourier2d"}

\* the source series the time loop reads is zero at every step
ZeroSource == IsZero(IF nb \in Elements THEN par.src ELSE Arr("src"))

\* C6: with a source series that is zero at every step, the current and the
\* previous fields are zero after every iteration and every stored snapshot
\* is zero
C6_ZeroStaysZero ==
    (nb \in Waves /\ InLoop /\ ZeroSource) =>
        /\ \A f \in Levels : IsZero(Arr(f))
        /\ \A b \in Stored : IsZero(Arr(b[1]))
        /\ \A i \in DOMAIN hist : \A f \in DOMAIN hist[i] : IsZero(hist[i][f])

C6_Witness ==
    /\ nb = "se_homo"
    /\ pc = "done"
    /\ ZeroSource
    /\ loc.it = 3
    /\ Len(saves) >= 2
    /\ IsZero(Arr("u"))

-----------------------------------------------------------------------------
(* Assembled matrices: symmetry and null space                             *)

\* the Python name is bound to an array
Bound(name) == name \in DOMAIN env

\* A = A^T
Symmetric(A) == \A i \in DOMAIN A, j \in DOMAIN A : A[i][j] = A[j][i]

\* C11: the finite-element mass and stiffness matrices and the
\* spectral-element stiffness matrix are symmetric, M[i,j] = M[j,i] and
\* K[i,j] = K[j,i] for all i, j, also for heterogeneous ro and mu
C11_Symmetric ==
    /\ (nb = "fe" /\ Bound("M")) => Symmetric(Arr("M"))
    /\ (nb \in Elements /\ Bound("K")) => Symmetric(Arr("K"))

C11_Witness ==
    /\ nb = "fe"
    /\ pc = "fd"
    /\ par.dens = "layered"
    /\ Arr("M")[1][2] # Zero
    /\ Arr("K")[1][2] # Zero
    /\ Arr("K")[1][2] = Arr("K")[2][1]
    /\ Arr("K")[1][1] # Arr("K")[2][2]

\* the sum of row i of the matrix A: (A @ 1)[i]
RowSum(A, i) == RSum(A[i], DOMAIN A[i])

\* C12: every row of the finite-element stiffness matrix sums to zero
\* (K * 1 = 0), the rows 0, 1, nx-2 and nx-1 included
C12_NullSpace ==
    (nb = "fe" /\ Bound("K")) =>
        \A i \in DOMAIN Arr("K") : RowSum(Arr("K"), i) = Zero

\* the columns of l1d sum to zero: the derivative of the constant 1 at every
\* quadrature node
DerivativeOfOne ==
    \A k \in 0 .. par.N :
        RSum([i \in 0 .. par.N |-> par.l1d[i][k]], 0 .. par.N) = Zero

\* the global stiffness matrix of the spectral-element notebook is complete
StiffnessAssembled == nb \in SE /\ pc \in {"time", "loop", "done"}

\* C13: with a basis-derivative matrix l1d whose columns sum to zero, every
\* row of the assembled spectral-element stiffness matrix sums to zero, in
\* the homogeneous and in the heterogeneous notebook
C13_NullSpace ==
    (StiffnessAssembled /\ DerivativeOfOne) =>
        \A i \in DOMAIN Arr("K") : RowSum(Arr("K"), i) = Zero

C13_Witness ==
    /\ StiffnessAssembled
    /\ DerivativeOfOne
    /\ nb = "se_homo"
    /\ par.N = 2
    /\ par.ne = 3
    /\ Arr("K")[2][2] = RAdd(Arr("Ke")[0][0], Arr("Ke")[2][2])
    /\ Arr("K")[2][1] # Zero
    /\ Arr("K")[2][3] # Zero

-----------------------------------------------------------------------------
(* Spectral and finite elements: material values                           *)

\* the density and shear-modulus values given to assembly
Materials ==
    IF nb = "fe"
    THEN {par.ro[a] : a \in DOMAIN par.ro} \cup {par.mu[a] : a \in DOMAIN par.mu}
    ELSE IF nb = "se_homo"
    THEN {par.rho, RMul(par.rho, RMul(par.vs, par.vs))}
    ELSE LET z == LowVelocityZone(par.N, par.ne, par.vs, par.rho, par.dens)
         IN  {z.rho[g] : g \in DOMAIN z.rho} \cup {z.mu[g] : g \in DOMAIN z.mu}

\* C14: when a density or shear-modulus value is zero or negative, assembly
\* ends with an InvalidMaterial error: no mass matrix, inverse mass matrix or
\* stiffness matrix is produced and the run never reaches its time loop
C14_InvalidMaterial ==
    (nb \in Elements /\ \E m \in Materials : ~RPos(m)) =>
        /\ ~Bound("M") /\ ~Bound("Minv") /\ ~Bound("K")
        /\ pc \notin {"time", "loop", "done"}
        /\ pc = "error" => err = "InvalidMaterial"

-----------------------------------------------------------------------------
(* The Chebyshev differentiation matrix                                    *)

\* C15: a call get_cheby_matrix(nx) with a degenerate order nx < 1 computes
\* no entry of the matrix, returns no matrix, and ends with an InvalidOrder
\* error
C15_InvalidOrder ==
    (nb = "cheby_matrix" /\ par.nx < 1) =>
        /\ ~Bound("D")
        /\ pc \notin {"entries", "corners", "return"}
        /\ pc = "error" => err = "InvalidOrder"

\* the closed form of D on the nodes x_i = cos(i*pi/N)
ChebyClosedForm(N) ==
    LET x == [i \in 0 .. N |-> cospi(i, N)]
        c == [i \in 0 .. N |-> IF i \in {0, N} THEN R(2) ELSE One]
    IN  [i \in 0 .. N |-> [j \in 0 .. N |->
            IF i = j
            THEN IF i = 0 THEN Rat(2 * N * N + 1, 6)
                 ELSE IF i = N THEN Rat(-(2 * N * N + 1), 6)
                 ELSE RNeg(RDiv(x[i], RMul(R(2), RSub(One, RMul(x[i], x[i])))))
            ELSE RDiv(RMul(RDiv(c[i], c[j]), IF (i + j) % 2 = 0 THEN One ELSE R(-1)),
                      RSub(x[i], x[j]))]]

\* every entry of the matrix is a number (not inf, not nan)
AllFinite(A) == \A i \in DOMAIN A : \A j \in DOMAIN A[i] : Finite(A[i][j])

\* C20: for N >= 1 the matrix get_cheby_matrix(N) returns, and the matrix D
\* of the Chebyshev notebook, is the closed form: (2N^2+1)/6 and -(2N^2+1)/6
\* at the two corners, -x_i/(2(1-x_i^2)) on the interior diagonal,
\* (c_i/c_j)(-1)^(i+j)/(x_i-x_j) off the diagonal; no entry keeps the inf the
\* loop writes to the corners first
C20_ClosedForm ==
    /\ (nb = "cheby_matrix" /\ pc = "return") =>
           /\ par.nx >= 1
           /\ Arr("D") = ChebyClosedForm(par.nx)
           /\ AllFinite(Arr("D"))
    /\ (nb = "cheby" /\ Bound("D")) =>
           /\ Arr("D") = ChebyClosedForm(par.nx)
           /\ AllFinite(Arr("D"))

\* the call with N = 3 has returned; before the last two statements the
\* corners of D held inf
C20_Witness ==
    /\ nb = "cheby_matrix"
    /\ pc = "return"
    /\ par.nx = 3
    /\ ~Finite(hist[Len(hist)].D[0][0])
    /\ ~Finite(hist[Len(hist)].D[3][3])
    /\ Arr("D")[0][0] = Rat(19, 6)
    /\ Arr("D")[1][1] = Rat(-1, 3)
    /\ Arr("D")[0][1] = R(-4)

-----------------------------------------------------------------------------
(* Time step                                                               *)

\* the smallest grid spacing and the largest velocity of the notebook
DxMin ==
    CASE nb \in SE \cup {"cheby"} -> par.dxmin
      [] nb = "fe" -> mindiff(par.x)
      [] OTHER -> par.dx

CMax ==
    CASE nb \in SE \cup {"fe"} -> par.vs
      [] nb = "cheby" -> vmax(par.c)
      [] OTHER -> par.c

\* C16: in every notebook with a time loop the Courant number eps is
\* smaller than 1 and the time step is dt = eps * dx_min / c_max
C16_Courant ==
    nb \in Waves =>
        /\ RLess(par.eps, One)
        /\ par.dt = RDiv(RMul(par.eps, DxMin), CMax)

-----------------------------------------------------------------------------
(* Time loops: the assembled operators                                     *)

\* the operators the time loop of the notebook applies
Operators ==
    CASE nb \in SE -> {"M", "Minv", "K"}
      [] nb = "fe" -> {"M", "Minv", "K", "Mfd", "D"}
      [] nb = "cheby" -> {"D"}
      [] OTHER -> {}

\* C17: no iteration of a time loop changes an assembled operator: after the
\* iteration the mass matrix, its inverse, the stiffness matrix and the
\* finite-difference and Chebyshev differentiation matrices hold the values
\* they held before it, and so the values they held before the first one
C17_OperatorsKept ==
    [][pc = "loop" => \A o \in Operators : heap'[env'[o]] = heap[env[o]]]_vars

\* the finite-element loop has run three times and moved both fields
C17_Witness ==
    /\ nb = "fe"
    /\ pc = "done"
    /\ loc.it = 3
    /\ ~IsZero(Arr("u"))
    /\ ~IsZero(Arr("p"))
    /\ Arr("K") = StiffnessMatrix(par.nx, par.mu, par.h)
    /\ Arr("D") = FDMatrix(par.nx, par.ro0, par.vs, par.dx)

-----------------------------------------------------------------------------
(* Spectral elements: the force vector                                     *)

\* C18: in the spectral-element loops the force vector of iteration it is
\* zero at every degree of freedom but the source node, and zero there too
\* when it >= len(src): f is built from zeros in every iteration and keeps no
\* amplitude of an earlier one
C18_ForceVector ==
    Stepped =>
        LET it == loc.it - 1
            f == Arr("f")
        IN  /\ DOMAIN f = 0 .. loc.ng - 1
            /\ \A a \in DOMAIN f : a # ForceIndex(loc.isrc) => f[a] = Zero
            /\ it >= Size(par.src) => \A a \in DOMAIN f : f[a] = Zero

\* the third iteration of a run with a series of two nonzero samples: the
\* first two iterations injected them, the third one nothing
C18_Witness ==
    /\ Stepped
    /\ loc.it = 3
    /\ Size(par.src) = 2
    /\ par.src[0] # Zero /\ par.src[1] # Zero
    /\ par.ne >= 2
    /\ IsZero(Arr("f"))
    /\ ~IsZero(Arr("u"))

\* C19: in the spectral-element runs with an odd number ng of degrees of
\* freedom the node that receives the source is the center node (ng-1)/2,
\* with as many nodes on its left as on its right
C19_SourceAtCenter ==
    (Stepped /\ loc.ng % 2 = 1 /\ loc.it - 1 < Size(par.src)) =>
        \A a \in DOMAIN Arr("f") :
            Arr("f")[a] # Zero => a = (loc.ng - 1) \div 2

\* the vector of n ones
ones(n) == [a \in 0 .. n - 1 |-> One]

\* C21: the Chebyshev differentiation matrix annihilates constants: every
\* row of D sums to zero, D * 1 = 0 and D * (D * 1) = 0, for the matrix a
\* call of get_cheby_matrix returns and for the matrix of the notebook
C21_ConstantsAnnihilated ==
    ((nb = "cheby_matrix" /\ pc = "return") \/ (nb = "cheby" /\ Bound("D"))) =>
        LET D == Arr("D")
            n == par.nx + 1
        IN  /\ \A i \in DOMAIN D : RowSum(D, i) = Zero
            /\ MatVec(D, ones(n)) = zeros(n)
            /\ MatVec(D, MatVec(D, ones(n))) = zeros(n)

\* the notebook with N = 3 has bound D and stepped with it
C21_Witness ==
    /\ nb = "cheby"
    /\ pc = "done"
    /\ par.nx = 3
    /\ ~IsZero(Arr("u"))
    /\ Arr("D")[0] = (0 :> Rat(19, 6)) @@ (1 :> R(-4)) @@ (2 :> Rat(4, 3)) @@ (3 :> Rat(-1, 2))

\* the field a finite-difference scheme of the 1D Fourier notebook computes
\* from the current field cur and the previous field old: the differences
\* of width w of cur at the inner points (zero elsewhere), the
\* extrapolation, the source sample s, and the two boundary points set to 0
Leapfrog(cur, old, w, s) ==
    LET nx == Size(cur)
        d2 == [i \in 0 .. nx - 1 |->
                 IF i < w \/ i >= nx - w THEN Zero
                 ELSE RDiv(IF w = 1
                           THEN RAdd(RSub(cur[i + 1], RMul(R(2), cur[i])), cur[i - 1])
                           ELSE FivePoint(cur[i + 2], cur[i + 1], cur[i], cur[i - 1], cur[i - 2]),
                           RMul(par.dx, par.dx))]
        sg == Arr("sg")
    IN  [i \in 0 .. nx - 1 |->
           IF i \in {0, nx - 1} THEN Zero
           ELSE RAdd(RAdd(RSub(RMul(R(2), cur[i]), old[i]),
                          RMul(RMul(RMul(par.c, par.c), RMul(par.dt, par.dt)), d2[i])),
                     RMul(RMul(sg[i], s), RMul(par.dt, par.dt)))]

\* the field of the scheme named name after pass k of the loop (k = 1 is
\* the first pass); the zero initial field before the first pass
FieldAfter(name, k) == IF k < 1 THEN zeros(par.nx) ELSE hist[k][name]

\* C22: in the 1D Fourier notebook the writes into d2p and ad2p change
\* neither the current nor the previous field of their scheme: the field
\* after every pass of the loop is the extrapolation of the field after
\* the pass before it (the current field) and of the field one pass
\* earlier (the previous field), the zero initial field standing for both
\* in the first pass and for the previous field in the second
C22_FieldsNotOverwritten ==
    (nb = "fourier" /\ pc \in {"loop", "done"}) =>
        \A k \in 1 .. Len(hist) :
            /\ hist[k].p = Leapfrog(FieldAfter("p", k - 1), FieldAfter("p", k - 2), 1,
                                    Arr("src")[k - 1])
            /\ hist[k].ap = Leapfrog(FieldAfter("ap", k - 1), FieldAfter("ap", k - 2), 2,
                                     Arr("src")[k - 1])

\* the classic second-derivative matrix: mu/dx^2 times the tridiagonal
\* matrix with -2 on the diagonal and 1 beside it, on all n rows
ClassicSecondDerivative(n, mu, dx) ==
    [r \in 0 .. n - 1 |-> [c \in 0 .. n - 1 |->
        RDiv(RMul(mu, IF r = c THEN R(-2)
                      ELSE IF r = c + 1 \/ r = c - 1 THEN One ELSE Zero),
             RMul(dx, dx))]]

\* C23: the finite-difference operator D of the finite-element notebook is
\* the classic matrix (mu/dx^2) * tridiag(1, -2, 1) on all nx rows, the
\* rows 0 and nx-1 included, with mu = ro0 * vs^2
C23_ClassicOperator ==
    (nb = "fe" /\ Bound("D")) =>
        Arr("D") = ClassicSecondDerivative(par.nx, RMul(par.ro0, RMul(par.vs, par.vs)), par.dx)

-----------------------------------------------------------------------------
(* Spectral elements: the two stiffness assemblies                         *)

\* the matrix the heterogeneous assembly (summation of the elemental
\* matrices with the factor Ji**2 * J) builds from the elements 1 .. e for
\* a shear modulus that is mu at every grid point
RECURSIVE UniformSummation(_, _)
UniformSummation(e, mu) ==
    IF e = 0 THEN zeros2(loc.ng, loc.ng)
    ELSE LET ix == BlockIndex(loc.ng, BlockStart(e, par.N), par.N)
             Ke == HeteroElementalStiffnessMatrix([a \in 0 .. loc.ng - 1 |-> mu],
                                                  [q \in 0 .. par.N |-> q + (e - 1) * par.N],
                                                  par.w, par.Ji, par.J, par.l1d)
         IN  AddBlock(UniformSummation(e - 1, mu), ix, Ke)

\* C24: the homogeneous stiffness assembly (the elemental matrix with the
\* factor Ji written over each diagonal block, then the shared entries set
\* to Ke[0,0] + Ke[N,N]) yields the same K as the heterogeneous summation
\* with the factor Ji**2 * J and a uniform mu, Ke starting from zero
C24_SameStiffness ==
    (nb = "se_homo" /\ StiffnessAssembled) =>
        Arr("K") = UniformSummation(par.ne, RMul(par.rho, RMul(par.vs, par.vs)))

\* three elements of order 2 assembled, with a scaling Ji other than 1
C24_Witness ==
    /\ nb = "se_homo"
    /\ StiffnessAssembled
    /\ par.N = 2
    /\ par.ne = 3
    /\ par.Ji \notin {One, R(-1)}
    /\ Arr("K")[4][4] = RAdd(Arr("Ke")[0][0], Arr("Ke")[2][2])
    /\ Arr("K")[4][4] # Zero

-----------------------------------------------------------------------------
(* Spectral elements: the write index of the lumped mass assembly          *)

\* the global mass assembly has begun and has not failed
MassAssembly == nb \in SE /\ pc \in {"mass_elem", "mass_write", "minv"}

\* C25: in the lumped mass assembly the write index k is in 0 .. ng-1 at
\* every write (k = -1 only before the first) and is ng-1 after the last;
\* the entries 0 .. k of the 2*ng long M have been written and are strictly
\* positive for a positive density, all entries above k, the upper ng among
\* them, are never written; no write fails, and Minv[i,i] = 1/M[i] is well
\* defined for every i < ng
C25_WriteIndex ==
    /\ nb \in SE => ~(pc = "error" /\ Bound("M") /\ ~Bound("Minv"))
    /\ MassAssembly =>
           LET M == Arr("M")
               k == loc.k
           IN  /\ Size(M) = 2 * loc.ng
               /\ -1 <= k /\ k <= loc.ng - 1
               /\ k = -1 <=> (loc.i = 1 /\ loc.j = 0)
               /\ pc = "minv" => k = loc.ng - 1
               /\ \A g \in 0 .. k : M[g] # Zero /\ (RPos(par.rho) => RPos(M[g]))
               /\ \A g \in k + 1 .. 2 * loc.ng - 1 : M[g] = Zero
    /\ (MassAssembled /\ Bound("Minv")) =>
           LET M == Arr("M")
           IN  /\ \A g \in loc.ng .. 2 * loc.ng - 1 : M[g] = Zero
               /\ \A g \in 0 .. loc.ng - 1 :
                     /\ M[g] # Zero
                     /\ Finite(Arr("Minv")[g][g])
                     /\ Arr("Minv")[g][g] = RDiv(One, M[g])

\* three elements of order 2 with a positive layered density, after the
\* last write and the inversion
C25_Witness ==
    /\ nb = "se_hetero"
    /\ pc = "stiff"
    /\ par.N = 2
    /\ par.ne = 3
    /\ par.dens = "layered"
    /\ RPos(par.rho)
    /\ loc.k = 6
    /\ RPos(Arr("M")[6])
    /\ Arr("M")[7] = Zero
    /\ Arr("Minv")[6][6] = RDiv(One, Arr("M")[6])

-----------------------------------------------------------------------------
(* Spectral elements, heterogeneous: the low velocity zone                 *)

\* the grid points of the low velocity zone: b - int(a/2) .. b + int(a/2) - 1
ZonePoints ==
    LET a == el_span * par.N + 1
        b == (par.N * par.ne + 1) \div 2
    IN  PySlice(par.N * par.ne + 1, b - (a \div 2), b + (a \div 2))

\* C26: in the heterogeneous notebook the velocity inside the low velocity
\* zone is the background velocity reduced by 40 % (0.6 times the
\* background), and the velocity outside the zone is the background
C26_ReducedBy40Percent ==
    (nb = "se_hetero" /\ Bound("vs")) =>
        \A g \in DOMAIN Arr("vs") :
            Arr("vs")[g] = IF g \in ZonePoints THEN RMul(Rat(6, 10), par.vs) ELSE par.vs

-----------------------------------------------------------------------------
(* Static elasticity: boundary values and the relaxation step              *)

\* the vector v has the two boundary values
Pinned(v) == v[0] = Rat(15, 100) /\ v[par.nx - 1] = Rat(5, 100)

\* C27: in the static notebook u[0] = 0.15 and u[nx-1] = 0.05 hold after
\* the finite-element solve, at the end of every relaxation iteration and
\* in every row of u_results a snapshot was stored in
C27_BoundaryPinned ==
    nb = "static" =>
        /\ Bound("xfe") => Pinned(Arr("xfe"))
        /\ pc \in {"loop", "done"} => Pinned(Arr("u"))
        /\ \A k \in 1 .. Len(hist) : Pinned(hist[k].u)
        /\ \A s \in 1 .. Len(saves) : Pinned(Arr("u_results")[saves[s][2]])

\* two snapshots stored, the field between the boundaries not zero
C27_Witness ==
    /\ nb = "static"
    /\ pc = "done"
    /\ par.nx = 5
    /\ Len(saves) = 2
    /\ Arr("xfe")[2] # Zero
    /\ Arr("u_results")[1][3] # Zero
    /\ Arr("u_results")[1][4] = Rat(5, 100)

\* the iterate before pass k of the relaxation loop (k = 1 is the first
\* pass): zero between the two boundary values before the first
Iterate(k) ==
    IF k < 1
    THEN [a \in 0 .. par.nx - 1 |-> IF a \in DOMAIN Boundary(par.nx)
                                     THEN Boundary(par.nx)[a] ELSE Zero]
    ELSE hist[k].u

\* C28: every pass of the relaxation loop is the simultaneous update
\* u[i] = (u_old[i+1] + u_old[i-1])/2 + h^2/(2*mu) * f[i] for 1 <= i <= nx-2,
\* u_old the complete iterate of the pass before
C28_SimultaneousUpdate ==
    (nb = "static" /\ pc \in {"loop", "done"}) =>
        \A k \in 1 .. Len(hist) : \A i \in 1 .. par.nx - 2 :
            hist[k].u[i] =
                RAdd(RDiv(RAdd(Iterate(k - 1)[i + 1], Iterate(k - 1)[i - 1]), R(2)),
                     RMul(RDiv(RMul(par.h, par.h), RMul(R(2), par.mu)), Arr("f")[i]))

\* three passes over five points: the third reads interior values of the
\* second on both sides of point 2
C28_Witness ==
    /\ nb = "static"
    /\ par.nx = 5
    /\ Len(hist) = 3
    /\ hist[2].u[1] # Zero
    /\ hist[2].u[3] # Zero
    /\ hist[3].u[2] = RDiv(RAdd(hist[2].u[3], hist[2].u[1]), R(2))

\* one pass of the relaxation loop started from the iterate u: the sums of
\* the neighbours, u = 0.5*( f*h**2/mu + du ), the two boundary values
RelaxOnce(u) ==
    LET f == Arr("f")
        du == NeighbourSum(u, zeros(par.nx))
    IN  [a \in 0 .. par.nx - 1 |->
           IF a \in DOMAIN Boundary(par.nx) THEN Boundary(par.nx)[a]
           ELSE RMul(Rat(5, 10), RAdd(RDiv(RMul(f[a], RMul(par.h, par.h)), par.mu), du[a]))]

-----------------------------------------------------------------------------
(* Fourier method: the wavenumber vector                                   *)

\* the wavenumbers of n samples at spacing dx in the order of the discrete
\* Fourier transform: j*dk below n/2, (j - n)*dk from n/2 on
FFTOrder(n, dx) ==
    LET dk == RDiv(RDiv(pi, dx), Rat(n, 2))
    IN  [j \in 0 .. n - 1 |-> IF 2 * j < n THEN RMul(R(j), dk) ELSE RMul(R(j - n), dk)]

\* C30: for an even number nx of samples the wavenumber vector of
\* fourier_derivative_2nd is in the order of the discrete Fourier transform:
\* k[j] = j*dk for j < nx/2 and (j - nx)*dk from nx/2 on, with
\* dk = kmax/(nx/2) and kmax = pi/dx, so k[nx/2] = -kmax and
\* k[nx-j]^2 = k[j]^2 for 1 <= j < nx/2; the function of the 1D and of the
\* 2D notebook build this same vector
C30_WavenumberOrder ==
    (nb \in {"fourier", "fourier2d"} /\ par.nx % 2 = 0) =>
        LET k == wavenumbers(par.nx, par.dx)
            half == par.nx \div 2
        IN  /\ k = FFTOrder(par.nx, par.dx)
            /\ k[half] = RNeg(RDiv(pi, par.dx))
            /\ \A j \in 1 .. half - 1 : RMul(k[par.nx - j], k[par.nx - j]) = RMul(k[j], k[j])

\* the 2D notebook has applied the derivative to a field of 6 x 6 samples
C30_Witness ==
    /\ nb = "fourier2d"
    /\ par.nx = 6
    /\ Len(hist) >= 1
    /\ wavenumbers(par.nx, par.dx)[4] = RMul(R(-2), RDiv(RDiv(pi, par.dx), R(3)))

=============================================================================
